---------------------------- MODULE Spec2Model ----------------------------
(***************************************************************************)
(* CareFund: the risk-scoring and data-aggregation pipeline.               *)
(*                                                                         *)
(*   lib/services/risk-calculator      (src/unnamed/part_005)              *)
(*   lib/services/cache-service and                                        *)
(*   lib/services/data-collector       (src/unnamed/part_006)              *)
(*   lib/services/real-time-data-fetcher (src/unnamed/part_007)            *)
(*   lib/config/api-config             (src/unnamed/part_008)              *)
(*   lib/utils/api-helpers             (src/lib/utils/api-helpers.ts)      *)
(*   app/api/agents/collector-analyzer (route.ts)                          *)
(*                                                                         *)
(* Numbers with one decimal (death rates, crime rates) are kept in tenths. *)
(* A risk score under construction is kept in units of 1/200 point, the    *)
(* common denominator of rate/20*5 (1/40 of a tenth) and rate/10 (1/100 of *)
(* a tenth), so that Math.round is computed on the exact sum.              *)
(***************************************************************************)
EXTENDS Integers, Sequences, FiniteSets, TLC

VARIABLES
    apiKeys,    \* the API keys configured in the process environment
    cache,      \* CacheService.cache: key -> entry
    now,        \* Date.now(), in milliseconds
    cleanupInterval, \* CacheService.cleanupInterval: the sweep's timer handle, or null
    pc,         \* where the analysis request stands
    profile,    \* the request's userProfile
    upstream,   \* what each upstream source answers during this request
    fault,      \* whether the enhanced collection throws an unexpected exception
    fetched,    \* fetcher -> [st, val]: the five fetchers of fetchAllRealTimeData
    collected,  \* collectAllData's result
    response,   \* the route's answer
    runs,       \* analysis requests answered so far
    ref,        \* what a request saw of the cache when it started, and an earlier
                \* request kept for comparison
    idx,        \* calculateCityHealthIndex applied: [aqi, crimeRate, temperature, index]
    probe,      \* cache client: the last set per key and the last lookup's result
    wc,         \* caller -> its withCache call: [st, key, ttl, invoked, result]
    retry,      \* a fetchWithRetry call: [cfg, st, attempt, history, waits, error]
    plan,       \* the analysis page's planning step: [riskScore, monthlySavings, insurancePlan]
    keygen,     \* a generateCacheKey call: [prefix, params, key]
    steps,      \* the analysis page's run: [pc, status of each agent step, isAnalyzing]
    shown       \* the results page's band for a score: [score, band]

cacheVars == <<cache, now, cleanupInterval>>
runVars == <<pc, profile, upstream, fault, fetched, collected, response, runs, ref>>
sideVars == <<keygen, steps, shown>>
benchVars == <<idx, probe, wc, retry, plan, sideVars>>
vars == <<apiKeys, cacheVars, runVars, benchVars>>

Min(a, b) == IF a < b THEN a ELSE b
Max(a, b) == IF a > b THEN a ELSE b

\* Units of a score under construction per point.
Q == 40 * 5

\* Math.round on a non-negative number given in units of 1/Q.
MathRound(x) == (x + (Q \div 2)) \div Q

(***************************************************************************)
(* Static reference tables (lib/data/crime-statistics and                   *)
(* lib/data/occupation-hazards).                                           *)
(***************************************************************************)

\* calculateCrimeStressImpact: a monotonic lookup from the crime rate
\* (tenths per 100k) to stress points.
calculateCrimeStressImpact(crimeRate) ==
    IF crimeRate > 10000 THEN 10
    ELSE IF crimeRate > 5000 THEN 8
    ELSE IF crimeRate > 3000 THEN 5
    ELSE IF crimeRate > 1500 THEN 3
    ELSE 1

(***************************************************************************)
(* data-collector: calculateCityHealthIndex                                *)
(***************************************************************************)

calculateCityHealthIndexSwapped(aqi, crimeRate, temperature) ==
    LET a == IF aqi > 200 THEN 50
             ELSE IF aqi > 150 THEN 20
             ELSE IF aqi > 100 THEN 35
             ELSE IF aqi > 50 THEN 10 ELSE 0
        c == IF crimeRate > 10000 THEN 30
             ELSE IF crimeRate > 5000 THEN 20
             ELSE IF crimeRate > 3000 THEN 10
             ELSE IF crimeRate > 1500 THEN 5 ELSE 0
        t == IF temperature > 40 \/ temperature < 10 THEN 20
             ELSE IF temperature > 35 \/ temperature < 15 THEN 10 ELSE 0
    IN  Max(100 - a - c - t, 0)

\* crimeRate in tenths: 1000 per 100k is 10000.
calculateCityHealthIndex(aqi, crimeRate, temperature) ==
    LET a == IF aqi > 200 THEN 50
             ELSE IF aqi > 150 THEN 35
             ELSE IF aqi > 100 THEN 20
             ELSE IF aqi > 50 THEN 10 ELSE 0
        c == IF crimeRate > 10000 THEN 30
             ELSE IF crimeRate > 5000 THEN 20
             ELSE IF crimeRate > 3000 THEN 10
             ELSE IF crimeRate > 1500 THEN 5 ELSE 0
        t == IF temperature > 40 \/ temperature < 10 THEN 20
             ELSE IF temperature > 35 \/ temperature < 15 THEN 10 ELSE 0
    IN  Max(100 - a - c - t, 0)

(***************************************************************************)
(* risk-calculator                                                         *)
(***************************************************************************)

Present(s) == s # "None" /\ s # ""

\* An optional field: its value, or the falsy default when the record lacks it.
Opt(rec, fld, default) == IF fld \in DOMAIN rec THEN rec[fld] ELSE default

\* The sum of calculateRiskScore before the final rounding, in units of 1/Q.
scoreSum(in) ==
    LET age    == in.userProfile.age
        aadr   == Opt(in.statisticalData, "ageAdjustedDeathRate", 0)
        aqi    == in.environmentalData.aqi
        nRisks == Len(Opt(in.environmentalData, "seasonalRisks", << >>))
        vcr    == Opt(in.statisticalData, "violentCrimeRate", 0)
        si     == Opt(in.statisticalData, "safetyIndex", 0)
        base   == 10
        agePts == IF age > 60 THEN 20
                  ELSE IF age > 50 THEN 15
                  ELSE IF age > 40 THEN 10
                  ELSE IF age > 30 THEN 5 ELSE 0
        \* min(rate/20*5, 5): rate in tenths gives (aadr/10)/4 points = 5*aadr units
        ageDeath == IF aadr # 0 THEN Min(5 * aadr, 5 * Q) ELSE 0
        aqiPts == IF aqi > 200 THEN 25
                  ELSE IF aqi > 150 THEN 20
                  ELSE IF aqi > 100 THEN 15
                  ELSE IF aqi > 50 THEN 10 ELSE 5
        seasonal == IF nRisks > 0 THEN Min(nRisks * 2, 5) ELSE 0
        \* Math.round(riskScore * 0.2)
        occ    == (2 * in.occupationHazard.riskScore + 5) \div 10
        health == IF Present(in.userProfile.healthCondition) THEN 15 ELSE 0
        addict == IF Present(in.userProfile.addictions) THEN 10 ELSE 0
        surg   == IF Present(in.userProfile.pastSurgery) THEN 5 ELSE 0
        shift  == IF in.userProfile.workShift = "Night Shift" THEN 5
                  ELSE IF in.userProfile.workShift = "Rotating Shift" THEN 3 ELSE 0
        crime  == Min(calculateCrimeStressImpact(in.cityStats.crimeRate), 10)
        \* min(rate/10, 5) when rate > 30: (vcr/10)/10 points = 2*vcr units
        violent == IF vcr # 0 /\ vcr > 300 THEN Min(2 * vcr, 5 * Q) ELSE 0
        safety == IF si # 0 /\ si < 60 THEN 5
                  ELSE IF si # 0 /\ si < 70 THEN 3 ELSE 0
    IN  Q * (base + agePts + aqiPts + seasonal + occ + health + addict + surg
             + shift + crime + safety)
        + ageDeath + violent

\* A score on half the scale.
calculateRiskScoreHalved(in) == Min(MathRound(scoreSum(in)) \div 2, 100)

calculateRiskScoreUncapped(in) == MathRound(scoreSum(in))

calculateRiskScore(in) == Min(MathRound(scoreSum(in)), 100)

\* Levels whose bands start ten points lower.
getRiskLevelTenLower(score) ==
    IF score >= 70 THEN "critical"
    ELSE IF score >= 50 THEN "high"
    ELSE IF score >= 30 THEN "medium"
    ELSE "low"

getRiskLevel(score) ==
    IF score >= 80 THEN "critical"
    ELSE IF score >= 60 THEN "high"
    ELSE IF score >= 40 THEN "medium"
    ELSE "low"

\* The order in which generateRiskFactors derives its factors.
Categories ==
    << "Air Quality", "Seasonal Health Risks", "Occupational Hazard", "Age Factor",
       "Pre-existing Condition", "Lifestyle Risk", "Work Schedule",
       "Environmental Stress", "City Safety", "City Health Infrastructure" >>

Factor(c, l, i) == [category |-> c, level |-> l, impact |-> i]

\* The factors pushed by generateRiskFactors, in push order.  An impact is in fifths
\* of a point (riskScore * 0.2 is riskScore fifths).
derivedFactors(in) ==
    LET aqi    == in.environmentalData.aqi
        nRisks == Len(Opt(in.environmentalData, "seasonalRisks", << >>))
        oh     == in.occupationHazard
        age    == in.userProfile.age
        cr     == in.cityStats.crimeRate
        si     == Opt(in.statisticalData, "safetyIndex", 0)
        chi    == in.statisticalData.cityHealthIndex
        air == IF aqi > 150
                 THEN << Factor("Air Quality", IF aqi > 200 THEN "critical" ELSE "high",
                                5 * (IF aqi > 200 THEN 25 ELSE 20)) >>
               ELSE IF aqi > 100 THEN << Factor("Air Quality", "medium", 5 * 15) >>
               ELSE << >>
        seas == IF nRisks > 0
                  THEN << Factor("Seasonal Health Risks",
                                 IF nRisks > 2 THEN "high" ELSE "medium", 5 * nRisks * 2) >>
                  ELSE << >>
        occ == IF oh.hazardLevel = "critical" \/ oh.hazardLevel = "high"
                 THEN << Factor("Occupational Hazard", oh.hazardLevel, oh.riskScore) >>
                 ELSE << >>
        agef == IF age > 50
                  THEN << Factor("Age Factor", IF age > 60 THEN "high" ELSE "medium",
                                 5 * (IF age > 60 THEN 20 ELSE 15)) >>
                  ELSE << >>
        hc == IF Present(in.userProfile.healthCondition)
                THEN << Factor("Pre-existing Condition", "high", 5 * 15) >> ELSE << >>
        life == IF Present(in.userProfile.addictions)
                  THEN << Factor("Lifestyle Risk", "medium", 5 * 10) >> ELSE << >>
        work == IF in.userProfile.workShift = "Night Shift"
                  THEN << Factor("Work Schedule", "medium", 5 * 5) >> ELSE << >>
        crime == IF cr > 5000
                   THEN << Factor("Environmental Stress",
                                  IF cr > 10000 THEN "high" ELSE "medium",
                                  5 * calculateCrimeStressImpact(cr)) >>
                   ELSE << >>
        safe == IF si # 0 /\ si < 60
                  THEN << Factor("City Safety", IF si < 50 THEN "high" ELSE "medium", 5 * 5) >>
                  ELSE << >>
        city == IF chi < 60
                  THEN << Factor("City Health Infrastructure",
                                 IF chi < 40 THEN "high" ELSE "medium", 5 * 10) >>
                  ELSE << >>
    IN  air \o seas \o occ \o agef \o hc \o life \o work \o crime \o safe \o city

\* The comparator handed to Array.prototype.sort: negative puts a first.
compareAscending(a, b) == a.impact - b.impact

compareImpact(a, b) == b.impact - a.impact

\* Array.prototype.sort is stable: an element moves in front of an earlier one only
\* when the comparator orders it strictly first.
RECURSIVE insertStable(_, _)
insertStable(sorted, f) ==
    IF sorted = << >> THEN << f >>
    ELSE LET last == sorted[Len(sorted)]
         IN  IF compareImpact(last, f) <= 0
               THEN Append(sorted, f)
               ELSE Append(insertStable(SubSeq(sorted, 1, Len(sorted) - 1), f), last)

RECURSIVE sortFactors(_)
sortFactors(fs) ==
    IF fs = << >> THEN << >>
    ELSE insertStable(sortFactors(SubSeq(fs, 1, Len(fs) - 1)), fs[Len(fs)])

generateRiskFactors(in) == sortFactors(derivedFactors(in))


(***************************************************************************)
(* real-time-data-fetcher: what each fetcher returns                       *)
(***************************************************************************)

\* CITY_COORDINATES' keys that the model uses.
KnownCities == {"Delhi", "Mumbai", "Bangalore", "Chennai"}

\* The rows of fetchCrimeData's crimeRates (rates in tenths per 100k).
crimeRates ==
    [c \in KnownCities |->
        CASE c = "Delhi"     -> [rate |-> 15861, violent |-> 452, safety |-> 45]
          [] c = "Mumbai"    -> [rate |-> 1825,  violent |-> 123, safety |-> 65]
          [] c = "Bangalore" -> [rate |-> 4558,  violent |-> 187, safety |-> 70]
          [] c = "Chennai"   -> [rate |-> 3427,  violent |-> 142, safety |-> 75]]

\* cityMultipliers, in hundredths; an unlisted city has 1.0.
cityMultiplier(c) ==
    CASE c = "Delhi" -> 100 [] c = "Mumbai" -> 90 [] c = "Bangalore" -> 85
      [] c = "Chennai" -> 88 [] OTHER -> 100

\* The rows of fetchOccupationDeathRate's occupationRates (tenths per 100k).
KnownOccupations == {"Construction Worker", "Factory Worker", "Teacher", "Student"}

occupationRates ==
    [o \in KnownOccupations |->
        CASE o = "Construction Worker" -> 185
          [] o = "Factory Worker"      -> 123
          [] o = "Teacher"             -> 32
          [] o = "Student"             -> 15]

\* getCityStatistics: the static per-city record (crimeRate in tenths).
getCityStatistics(c) ==
    [crimeRate |-> CASE c = "Delhi" -> 15860 [] c = "Mumbai" -> 1830
                     [] c = "Bangalore" -> 4560 [] c = "Chennai" -> 3430]

\* getOccupationHazard: the static per-occupation record.
getOccupationHazard(o) ==
    CASE o = "Construction Worker" -> [hazardLevel |-> "critical", riskScore |-> 100]
      [] o = "Factory Worker"      -> [hazardLevel |-> "high",     riskScore |-> 72]
      [] o = "Teacher"             -> [hazardLevel |-> "medium",   riskScore |-> 45]
      [] o = "Student"             -> [hazardLevel |-> "low",      riskScore |-> 12]

\* Math.round(x / 10) for x in tenths; \div rounds down, as Math.floor(x + 0.5) does.
RoundTenths(x) == (x + 5) \div 10

climateRiskOf(aqi) ==
    IF aqi > 200 THEN "Critical"
    ELSE IF aqi > 150 THEN "High"
    ELSE IF aqi > 100 THEN "Moderate"
    ELSE "Low"

seasonalRisksOf(temp, aqi, humidity) ==
    (IF temp > 40 THEN << "Extreme heat warning" >>
     ELSE IF temp > 35 THEN << "Heat stress risk" >> ELSE << >>)
    \o (IF aqi > 150 THEN << "Poor air quality - respiratory risks" >> ELSE << >>)
    \o (IF humidity > 80 THEN << "High humidity - heat exhaustion risk" >> ELSE << >>)

\* fetchClimateData's producer once Open-Meteo answered.  keys: the configured API
\* keys; up: what each upstream answers in this run.
climateLive(city, keys, up) ==
    LET aqiOk == "aqicn" \in keys /\ up.aqicn.ok /\ up.aqicn.status = "ok"
                 /\ up.aqicn.aqi > 0
        aqi   == IF aqiOk THEN up.aqicn.aqi ELSE 150
        cond  == IF "openWeatherMap" \in keys /\ up.owm.ok THEN up.owm.main ELSE "Clear"
        temp  == RoundTenths(up.weather.temperature)
    IN  [city |-> city,
         temperature |-> temp,
         humidity |-> up.weather.humidity,
         aqi |-> aqi,
         weatherCondition |-> cond,
         climateRisk |-> climateRiskOf(aqi),
         seasonalRisks |-> seasonalRisksOf(temp, aqi, up.weather.humidity),
         sources |-> [weather |-> "Open-Meteo (Real-time)",
                      aqi |-> IF aqiOk THEN "AQICN (Real-time)" ELSE "Estimated"]]

climateFallback(city) ==
    [city |-> city, temperature |-> 30, humidity |-> 65, aqi |-> 150,
     weatherCondition |-> "Clear", climateRisk |-> "Moderate",
     seasonalRisks |-> << "Data temporarily unavailable" >>,
     sources |-> [weather |-> "Fallback estimate", aqi |-> "Fallback estimate"]]

\* The age multiplier of the live path, in tenths.
ageMultiplier(age) ==
    IF age > 60 THEN 25 ELSE IF age > 50 THEN 18 ELSE IF age > 40 THEN 13
    ELSE IF age > 30 THEN 10 ELSE 7

\* fetchDeathRateData's producer once the World Bank answered; value is the latest
\* non-null data point in tenths, 0 when the answer holds none.
deathRateLive(city, age, value) ==
    LET baseRate == IF value # 0 THEN value ELSE 73
    IN  [city |-> city,
         overallDeathRate |-> baseRate,
         \* Math.round(baseRate * ageMult * cityMult * 10) / 10
         ageAdjustedRate |-> (baseRate * ageMultiplier(age) * cityMultiplier(city) + 500)
                             \div 1000,
         source |-> "World Bank API", confidence |-> "high"]

\* A fallback that keeps the live result's label.
deathRateFallbackUnflagged(city, age) ==
    [city |-> city, overallDeathRate |-> 73, ageAdjustedRate |-> 73,
     source |-> "World Bank API", confidence |-> "low"]

deathRateFallback(city, age) ==
    LET m == IF age > 60 THEN 25 ELSE IF age > 50 THEN 18 ELSE IF age > 40 THEN 13 ELSE 10
    IN  [city |-> city,
         overallDeathRate |-> 73,
         ageAdjustedRate |-> RoundTenths(73 * m),
         source |-> "Estimated (API unavailable)", confidence |-> "low"]

occupationDeathRateLive(occupation) ==
    [occupation |-> occupation,
     deathRate |-> IF occupation \in KnownOccupations THEN occupationRates[occupation] ELSE 50,
     source |-> "ILO/OSHA Statistics", confidence |-> "high"]

occupationDeathRateFallback(occupation) ==
    [occupation |-> occupation, deathRate |-> 50,
     source |-> "Estimated", confidence |-> "low"]

crimeLive(city) ==
    LET r == IF city \in KnownCities THEN crimeRates[city]
             ELSE [rate |-> 3000, violent |-> 150, safety |-> 70]
    IN  [city |-> city, crimeRate |-> r.rate, violentCrimeRate |-> r.violent,
         safetyIndex |-> r.safety, source |-> "NCRB (National Crime Records Bureau)"]

crimeFallback(city) ==
    [city |-> city, crimeRate |-> 3000, violentCrimeRate |-> 150,
     safetyIndex |-> 70, source |-> "Estimated"]

generateFallbackAlerts(city) ==
    << [title |-> "General Health Advisory", severity |-> "low",
        category |-> "General Health", location |-> city,
        source |-> "System Generated"] >>

\* fetchHealthAlerts' producer once NewsAPI answered with n articles: the first
\* three, or the fallback alert when there is none.
healthAlertsLive(city, n) ==
    IF n = 0 THEN generateFallbackAlerts(city)
    ELSE [i \in 1..Min(n, 3) |->
            [title |-> "Health News", severity |-> "medium", category |-> "Health News",
             location |-> city, source |-> "NewsAPI"]]   \* article.source.name

(***************************************************************************)
(* fetchAllRealTimeData's tail, collectAllData and the route               *)
(***************************************************************************)

\* String.includes('Real-time') on the provenance labels the fetchers write.
includesRealTime(label) == label \in {"Open-Meteo (Real-time)", "AQICN (Real-time)"}

Count(flags) == Cardinality({i \in DOMAIN flags : flags[i]})

realTimeCount(f) ==
    Count(<< includesRealTime(f.climate.sources.weather),
             includesRealTime(f.climate.sources.aqi),
             f.deathRate.confidence = "high",
             f.occupationDeathRate.confidence = "high" >>)

\* f: the five settled results.  realTimePercentage is (count / 4) * 100.
dataQualityOf(f) ==
    LET pct == realTimeCount(f) * 25
    IN  [overall |-> IF pct >= 75 THEN "excellent"
                     ELSE IF pct >= 50 THEN "good"
                     ELSE IF pct >= 25 THEN "fair"
                     ELSE "poor",
         sources |-> Cardinality({f.climate.sources.weather, f.climate.sources.aqi,
                                  f.deathRate.source, f.occupationDeathRate.source,
                                  f.crime.source}),
         realTimeDataPercentage |-> pct]

fetchAllRealTimeDataResult(f) ==
    [climate |-> f.climate, deathRate |-> f.deathRate,
     occupationDeathRate |-> f.occupationDeathRate, crime |-> f.crime,
     healthAlerts |-> f.healthAlerts, dataQuality |-> dataQualityOf(f)]

\* collectAllData's try block, given fetchAllRealTimeData's result.
collectEnhanced(rt, city, occupation) ==
    LET occupationHazard == getOccupationHazard(occupation)
        environmental ==
            [city |-> rt.climate.city, aqi |-> rt.climate.aqi,
             temperature |-> rt.climate.temperature, humidity |-> rt.climate.humidity,
             climateRisk |-> rt.climate.climateRisk,
             weatherCondition |-> rt.climate.weatherCondition,
             seasonalRisks |-> rt.climate.seasonalRisks,
             source |-> rt.climate.sources]
    IN  [environmental |-> environmental,
         statistical |->
            [deathRate |-> rt.deathRate.overallDeathRate,
             ageAdjustedDeathRate |-> rt.deathRate.ageAdjustedRate,
             crimeRate |-> rt.crime.crimeRate,
             violentCrimeRate |-> rt.crime.violentCrimeRate,
             safetyIndex |-> rt.crime.safetyIndex,
             occupationHazardLevel |-> occupationHazard.hazardLevel,
             occupationDeathRate |-> rt.occupationDeathRate.deathRate,
             cityHealthIndex |-> calculateCityHealthIndex(environmental.aqi,
                                    rt.crime.crimeRate, environmental.temperature)],
         occupationHazard |-> occupationHazard,
         cityStats |-> getCityStatistics(city),
         realTimeData |-> rt,
         healthAlerts |-> rt.healthAlerts,
         dataQuality |-> rt.dataQuality]

\* A fetchEnvironmentalData without its catch block: a failed request throws.
fetchEnvironmentalDataUncaught(city, api) ==
    IF api.ok
      THEN [city |-> city, aqi |-> api.aqi, temperature |-> api.temperature,
            humidity |-> api.humidity, climateRisk |-> climateRiskOf(api.aqi),
            source |-> api.source]
      ELSE [threw |-> TRUE]

\* data-collector's own fetchEnvironmentalData; api: the /api/environment answer.
fetchEnvironmentalData(city, api) ==
    IF api.ok
      THEN [city |-> city, aqi |-> api.aqi, temperature |-> api.temperature,
            humidity |-> api.humidity, climateRisk |-> climateRiskOf(api.aqi),
            source |-> api.source]
      ELSE [city |-> city, aqi |-> 150, temperature |-> 30, humidity |-> 65,
            climateRisk |-> "Moderate",
            source |-> [weather |-> "Fallback", aqi |-> "Estimated"]]

\* data-collector's own fetchDeathRateData: Math.round(7.3 * ageMult * cityMult * 10) / 10.
basicDeathRate(city, age) ==
    (73 * ageMultiplier(age) * cityMultiplier(city) + 500) \div 1000

\* The cities and occupations the static tables hold; a lookup of another one
\* makes the collection throw.
StaticCities == KnownCities
StaticOccupations == KnownOccupations

\* collectBasicData: [ok |-> TRUE, data |-> ...], or [ok |-> FALSE] when it rethrows.
collectBasicData(city, occupation, age, api) ==
    LET environmental == fetchEnvironmentalData(city, api)
    IN  IF "threw" \in DOMAIN environmental
           \/ city \notin StaticCities \/ occupation \notin StaticOccupations
          THEN [ok |-> FALSE]
          ELSE LET cityStats == getCityStatistics(city)
                   occupationHazard == getOccupationHazard(occupation)
               IN  [ok |-> TRUE,
                    data |->
                      [environmental |-> environmental,
                       statistical |->
                          [deathRate |-> basicDeathRate(city, age),
                           crimeRate |-> cityStats.crimeRate,
                           occupationHazardLevel |-> occupationHazard.hazardLevel,
                           occupationDeathRate |-> Opt(occupationHazard, "deathRate", 0),
                           cityHealthIndex |->
                              calculateCityHealthIndex(environmental.aqi,
                                  cityStats.crimeRate, environmental.temperature)],
                       occupationHazard |-> occupationHazard,
                       cityStats |-> cityStats]]

\* collectAllData: the enhanced collection, or the basic one when that threw
\* (threw: an unexpected exception; a failed static lookup throws as well).
collectAllData(p, f, threw, api) ==
    IF threw \/ p.city \notin StaticCities \/ p.occupation \notin StaticOccupations
      THEN collectBasicData(p.city, p.occupation, p.age, api)
      ELSE [ok |-> TRUE,
            data |-> collectEnhanced(fetchAllRealTimeDataResult(f), p.city, p.occupation)]

riskCalculationInput(p, cd) ==
    [userProfile |-> p, environmentalData |-> cd.environmental,
     statisticalData |-> cd.statistical, occupationHazard |-> cd.occupationHazard,
     cityStats |-> cd.cityStats]

\* `...(x && { name: x })`: the field is there when the collected record has it.
Spread(cd, fld) == IF fld \in DOMAIN cd THEN [n \in {fld} |-> cd[fld]] ELSE << >>

\* The text the route answers with when the narrative service is not configured or
\* its call fails.
FallbackAnalysis == "Risk analysis based on statistical data and expert guidelines."

\* Step 3 of the route: the narrative, asked for only when the service is
\* configured; a rejected call leaves the fallback text.
geminiAnalysisOf(keys, gem) ==
    IF "gemini" \in keys /\ gem.ok THEN gem.analysis ELSE FallbackAnalysis

\* Step 4 of the route: the generated steps, or the five fallback steps when none
\* was generated.
preventionStepsOf(keys, gem) ==
    IF "gemini" \in keys /\ gem.ok /\ gem.steps > 0
      THEN [kind |-> "generated", count |-> gem.steps]
      ELSE [kind |-> "fallback", count |-> 5]

\* The route's agent1Results (timestamp left out).
agent1Results(p, cd, keys, gem) ==
    LET in == riskCalculationInput(p, cd)
        score == calculateRiskScore(in)
    IN  [riskScore |-> score,
         riskLevel |-> getRiskLevel(score),
         environmentalData |-> cd.environmental,
         statisticalData |-> cd.statistical,
         riskFactors |-> generateRiskFactors(in),
         preventionSteps |-> preventionStepsOf(keys, gem),
         geminiAnalysis |-> geminiAnalysisOf(keys, gem)]
        @@ Spread(cd, "healthAlerts") @@ Spread(cd, "dataQuality")
        @@ (IF "realTimeData" \in DOMAIN cd
              THEN [n \in {"realTimeDataSources"} |->
                      [climate |-> cd.realTimeData.climate.sources,
                       deathRate |-> cd.realTimeData.deathRate.source,
                       crime |-> cd.realTimeData.crime.source,
                       occupationDeathRate |-> cd.realTimeData.occupationDeathRate.source]]
              ELSE << >>)

(***************************************************************************)
(* cache-service: CacheService                                             *)
(***************************************************************************)

EmptyCache == << >>

\* cleanupInterval: the handle setInterval returned, or null.
TimerHandle == "Timeout"
NoTimer == "null"

\* A destroy that empties the cache and leaves the timer alone.
destroyedKeepingTimer(c, h) == [cache |-> EmptyCache, cleanupInterval |-> h]

\* destroy(): clearInterval and cleanupInterval = null when there is a handle, then
\* clear().
destroyed(c, h) == [cache |-> EmptyCache, cleanupInterval |-> NoTimer]

expiredAtTtl(entry, t) == t - entry.timestamp >= entry.ttl * 1000

\* get's and cleanup's test: the entry's age in ms is beyond ttl seconds.
expired(entry, t) == t - entry.timestamp > entry.ttl * 1000

Remove(c, ks) == [k \in (DOMAIN c) \ ks |-> c[k]]

\* A lookup that does not look at the entry's age.
cacheHitStale(c, key, t) == key \in DOMAIN c

\* get(key) !== null
cacheHit(c, key, t) == key \in DOMAIN c /\ ~expired(c[key], t)

\* the map after get(key): an expired entry is deleted by the read
afterGet(c, key, t) ==
    IF key \in DOMAIN c /\ expired(c[key], t) THEN Remove(c, {key}) ELSE c

\* A set that keeps an entry that is already there.
afterSetIfAbsent(c, key, data, ttl, t) ==
    IF key \in DOMAIN c THEN c
    ELSE [k \in (DOMAIN c) \cup {key} |->
            IF k = key THEN [data |-> data, timestamp |-> t, ttl |-> ttl] ELSE c[k]]

afterSet(c, key, data, ttl, t) ==
    [k \in (DOMAIN c) \cup {key} |->
        IF k = key THEN [data |-> data, timestamp |-> t, ttl |-> ttl] ELSE c[k]]

afterDelete(c, key) == Remove(c, {key})

\* A sweep that stops at the first expired entry it meets.
afterCleanupFirst(c, t) ==
    LET old == {k \in DOMAIN c : expired(c[k], t)}
    IN  IF old = {} THEN c ELSE Remove(c, {CHOOSE k \in old : TRUE})

\* cleanup(): every expired entry goes
afterCleanup(c, t) == Remove(c, {k \in DOMAIN c : expired(c[k], t)})

(***************************************************************************)
(* cache keys                                                              *)
(***************************************************************************)

\* Object.keys(params).sort(): the parameter names the fetchers use, in sort order.
ParamOrder == << "age", "city", "occupation" >>

ParamRank(name) == CHOOSE i \in DOMAIN ParamOrder : ParamOrder[i] = name

\* A key built from the parameters in the order the caller wrote them.
generateCacheKeyUnsorted(prefix, params) == << prefix, params >>

\* params: a sequence of <<name, value>> in the order the caller wrote them.  The key
\* is the prefix and the pairs in name order (the code joins them into one string).
generateCacheKey(prefix, params) ==
    LET ranks == {ParamRank(params[i][1]) : i \in DOMAIN params}
        pairAt(r) == params[CHOOSE i \in DOMAIN params : ParamRank(params[i][1]) = r]
        RECURSIVE build(_)
        build(rs) == IF rs = {} THEN << >>
                     ELSE LET m == CHOOSE x \in rs : \A y \in rs : x <= y
                          IN  << pairAt(m) >> \o build(rs \ {m})
    IN  << prefix, build(ranks) >>

Fetchers == {"climate", "deathRate", "occupationDeathRate", "crime", "healthAlerts"}

cacheKeyOf(f, p) ==
    CASE f = "climate"   -> generateCacheKey("climate", << <<"city", p.city>> >>)
      [] f = "deathRate" -> generateCacheKey("deathRate",
                                             << <<"city", p.city>>, <<"age", p.age>> >>)
      [] f = "occupationDeathRate" ->
            generateCacheKey("occupationDeathRate", << <<"occupation", p.occupation>> >>)
      [] f = "crime"     -> generateCacheKey("crimeData", << <<"city", p.city>> >>)
      [] f = "healthAlerts" -> generateCacheKey("healthAlerts", << <<"city", p.city>> >>)

\* The ttl each fetcher hands to withCache, in seconds.
ttlOf(f) ==
    CASE f = "climate" -> 3600
      [] f = "healthAlerts" -> 7200
      [] OTHER -> 86400

\* Whether the fetcher's producer resolves, given what the upstreams answer
\* (up.x.ok: fetchWithRetry on source x resolved).
producerResolves(f, p, up) ==
    CASE f = "climate"      -> p.city \in KnownCities /\ up.weather.ok
      [] f = "deathRate"    -> up.worldBank.ok
      [] f = "healthAlerts" -> up.news.ok
      [] OTHER              -> TRUE

producerValue(f, p, keys, up) ==
    CASE f = "climate"   -> climateLive(p.city, keys, up)
      [] f = "deathRate" -> deathRateLive(p.city, p.age, up.worldBank.value)
      [] f = "occupationDeathRate" -> occupationDeathRateLive(p.occupation)
      [] f = "crime"     -> crimeLive(p.city)
      [] f = "healthAlerts" -> healthAlertsLive(p.city, up.news.articles)

\* The value the fetcher's catch block returns.
fallbackOf(f, p) ==
    CASE f = "climate"   -> climateFallback(p.city)
      [] f = "deathRate" -> deathRateFallback(p.city, p.age)
      [] f = "occupationDeathRate" -> occupationDeathRateFallback(p.occupation)
      [] f = "crime"     -> crimeFallback(p.city)
      [] f = "healthAlerts" -> generateFallbackAlerts(p.city)

\* A route whose narrative call is not guarded: its rejection reaches the outer catch.
routeResponseUnguarded(p, outcome, keys, gem) ==
    IF outcome.ok /\ ("gemini" \notin keys \/ gem.ok)
      THEN [status |-> 200, success |-> TRUE,
            data |-> agent1Results(p, outcome.data, keys, gem),
            metadata |-> Spread(outcome.data, "dataQuality")]
      ELSE [status |-> 500, error |-> "Failed to complete risk analysis"]

\* The route's answer: 200 with the results, or 500 when the collection rejected.
routeResponse(p, outcome, keys, gem) ==
    IF outcome.ok
      THEN [status |-> 200, success |-> TRUE,
            data |-> agent1Results(p, outcome.data, keys, gem),
            metadata |-> Spread(outcome.data, "dataQuality")]
      ELSE [status |-> 500, error |-> "Failed to complete risk analysis"]

(***************************************************************************)
(* What the upstream sources answer                                        *)
(***************************************************************************)

AllKeys == {"aqicn", "openWeatherMap", "newsApi", "gemini"}

WeatherDown == [ok |-> FALSE, temperature |-> 0, humidity |-> 0]
WeatherUp(t, h) == [ok |-> TRUE, temperature |-> t, humidity |-> h]
AqicnDown == [ok |-> FALSE, status |-> "", aqi |-> 0]
AqicnUp(a) == [ok |-> TRUE, status |-> "ok", aqi |-> a]
OwmDown == [ok |-> FALSE, main |-> ""]
OwmUp(m) == [ok |-> TRUE, main |-> m]
WorldBankDown == [ok |-> FALSE, value |-> 0]
WorldBankUp(v) == [ok |-> TRUE, value |-> v]
NewsDown == [ok |-> FALSE, articles |-> 0]
NewsUp(n) == [ok |-> TRUE, articles |-> n]
EnvApiDown == [ok |-> FALSE]
GeminiDown == [ok |-> FALSE, analysis |-> "", steps |-> 0]
GeminiUp(n) == [ok |-> TRUE, analysis |-> "Generated analysis", steps |-> n]
EnvApiUp(a, t, h) ==
    [ok |-> TRUE, aqi |-> a, temperature |-> t, humidity |-> h,
     source |-> [weather |-> "Open-Meteo", aqi |-> "AQICN"]]

AllDown ==
    [weather |-> WeatherDown, aqicn |-> AqicnDown, owm |-> OwmDown,
     worldBank |-> WorldBankDown, news |-> NewsDown, environmentApi |-> EnvApiDown,
     gemini |-> GeminiDown]

NoVal == << >>
Idle == [f \in Fetchers |-> [st |-> "idle", val |-> NoVal]]
Done(v) == [st |-> "done", val |-> v]
Pending == [st |-> "pending", val |-> NoVal]

\* An aggregator that takes the climate fallback instead of the fetcher's result.
valsClimateUnawaited(fs) ==
    [f \in Fetchers |-> IF f = "climate" THEN climateFallback(profile.city) ELSE fs[f].val]

\* The array Promise.all resolves with.
vals(fs) == [f \in Fetchers |-> fs[f].val]

(***************************************************************************)
(* One analysis request: POST /api/agents/collector-analyzer               *)
(***************************************************************************)

MaxRuns == 3
MaxTicks == 3
TickMs == 30 * 60 * 1000

\* The value the profile form stores for each choice of its Work Shift select.
formWorkShift(choice) ==
    CASE choice = "Day Shift" -> "Day"
      [] choice = "Night Shift" -> "Night"
      [] choice = "Rotating Shift" -> "Rotating"

\* The profiles of the pipeline runs.
Profiles ==
    { [age |-> 65, occupation |-> "Factory Worker", city |-> "Delhi",
       healthCondition |-> "Diabetes", addictions |-> "None", pastSurgery |-> "None",
       workShift |-> "Night"],
      [age |-> 22, occupation |-> "Student", city |-> "Bangalore",
       healthCondition |-> "None", addictions |-> "None", pastSurgery |-> "None",
       workShift |-> "Day"] }

Deployments == { {}, {"aqicn"}, AllKeys }

Sources == {"weather", "aqicn", "owm", "worldBank", "news", "gemini"}

\* The AQI reported for the request's city during the runs.
reportedAqi(city) == IF city = "Delhi" THEN 220 ELSE 95

\* The upstream answers of a run, by the set of sources that are down; a source
\* whose key is not configured is never asked.
Scenario(down, keys, api) ==
    [weather   |-> IF "weather" \in down THEN WeatherDown ELSE WeatherUp(385, 85),
     aqicn     |-> IF "aqicn" \in down \/ "aqicn" \notin keys
                     THEN AqicnDown ELSE AqicnUp(reportedAqi(profile.city)),
     owm       |-> IF "owm" \in down \/ "openWeatherMap" \notin keys
                     THEN OwmDown ELSE OwmUp("Haze"),
     worldBank |-> IF "worldBank" \in down THEN WorldBankDown ELSE WorldBankUp(91),
     news      |-> IF "news" \in down \/ "newsApi" \notin keys THEN NewsDown
                   ELSE IF "headlines" \in down THEN NewsUp(0) ELSE NewsUp(2),
     gemini    |-> IF "gemini" \in down \/ "gemini" \notin keys THEN GeminiDown
                   ELSE GeminiUp(5),
     environmentApi |-> api]

\* "headlines": NewsAPI answers, with no article.
DownSets ==
    { {}, Sources, {"weather"}, {"aqicn"}, {"worldBank"}, {"news"}, {"headlines"},
      {"gemini"} }

\* What a lookup at time t can see of a cache: the data of the entries that are not
\* older than their ttl.
Visible(c, t) ==
    [k \in {x \in DOMAIN c : t - c[x].timestamp <= c[x].ttl * 1000} |-> c[k].data]

\* A request starts: fetchAllRealTimeData calls the five fetchers, and each runs up
\* to its first await: the cache lookup of withCache (fetchHealthAlerts returns its
\* fallback at once when NewsAPI has no key).
StartRun(up, flt) ==
    /\ pc \in {"idle", "responded"}
    /\ runs < MaxRuns
    /\ LET asked == {f \in Fetchers : f # "healthAlerts" \/ "newsApi" \in apiKeys}
           lookedUp == {cacheKeyOf(f, profile) : f \in asked}
       IN  /\ fetched' =
                [f \in Fetchers |->
                    IF f \notin asked THEN Done(generateFallbackAlerts(profile.city))
                    ELSE IF cacheHit(cache, cacheKeyOf(f, profile), now)
                           THEN Done(cache[cacheKeyOf(f, profile)].data)
                           ELSE Pending]
           /\ cache' = Remove(cache, {k \in lookedUp \cap DOMAIN cache : expired(cache[k], now)})
    /\ upstream' = up
    /\ fault' = flt
    /\ pc' = "fetching"
    /\ collected' = NoVal
    /\ response' = NoVal
    /\ ref' = [ref EXCEPT !.view = Visible(cache, now)]
    /\ UNCHANGED <<apiKeys, now, cleanupInterval, profile, runs, benchVars>>

\* A settle that also stores the fallback its catch block returns.
SettleCachingFallback(f) ==
    /\ pc = "fetching"
    /\ fetched[f].st = "pending"
    /\ LET v == IF producerResolves(f, profile, upstream)
                  THEN producerValue(f, profile, apiKeys, upstream)
                  ELSE fallbackOf(f, profile)
       IN  /\ cache' = afterSet(cache, cacheKeyOf(f, profile), v, ttlOf(f), now)
           /\ fetched' = [fetched EXCEPT ![f] = Done(v)]
    /\ UNCHANGED <<apiKeys, now, cleanupInterval, pc, profile, upstream, fault, collected, response, runs, ref, benchVars>>

\* A fetcher's producer settles: withCache stores what it resolved with, or the
\* fetcher's catch block returns the fallback.
Settle(f) ==
    /\ pc = "fetching"
    /\ fetched[f].st = "pending"
    /\ IF producerResolves(f, profile, upstream)
         THEN LET v == producerValue(f, profile, apiKeys, upstream)
              IN  /\ cache' = afterSet(cache, cacheKeyOf(f, profile), v, ttlOf(f), now)
                  /\ fetched' = [fetched EXCEPT ![f] = Done(v)]
         ELSE /\ fetched' = [fetched EXCEPT ![f] = Done(fallbackOf(f, profile))]
              /\ UNCHANGED cache
    /\ UNCHANGED <<apiKeys, now, cleanupInterval, pc, profile, upstream, fault, collected, response, runs, ref, benchVars>>

\* Promise.all resolved: fetchAllRealTimeData composes its result and collectAllData
\* merges it (or falls back to collectBasicData).
Collect ==
    /\ pc = "fetching"
    /\ \A f \in Fetchers : fetched[f].st = "done"
    /\ collected' = collectAllData(profile, vals(fetched), fault, upstream.environmentApi)
    /\ pc' = "collected"
    /\ UNCHANGED <<apiKeys, cacheVars, profile, upstream, fault, fetched, response, runs, ref, benchVars>>

\* The route scores the collected data and answers.
Respond ==
    /\ pc = "collected"
    /\ response' = routeResponse(profile, collected, apiKeys, upstream.gemini)
    /\ pc' = "responded"
    /\ runs' = runs + 1
    /\ UNCHANGED <<apiKeys, cacheVars, profile, upstream, fault, fetched, collected, ref, benchVars>>

\* Time passes, half an hour at a time: a request, which ends within seconds, sees
\* one instant.
Tick ==
    /\ pc \in {"idle", "responded"}
    /\ now < MaxTicks * TickMs
    /\ now' = now + TickMs
    /\ UNCHANGED <<apiKeys, cache, cleanupInterval, runVars, benchVars>>

\* The cleanup timer fires.
Sweep ==
    /\ cleanupInterval # NoTimer
    /\ cache' = afterCleanup(cache, now)
    /\ cache' # cache
    /\ UNCHANGED <<apiKeys, now, cleanupInterval, runVars, benchVars>>

RefIdle == [view |-> << >>, saved |-> NoVal]

RunIdle ==
    /\ pc = "idle"
    /\ upstream = AllDown
    /\ fault = FALSE
    /\ fetched = Idle
    /\ collected = NoVal
    /\ response = NoVal
    /\ runs = 0
    /\ ref = RefIdle

IdxIdle == idx = [aqi |-> 0, crimeRate |-> 0, temperature |-> 0, index |-> -1]

NotFound == [found |-> FALSE]
Found(v) == [found |-> TRUE, data |-> v]

ProbeIdle ==
    probe = [lastSet |-> << >>, last |-> [op |-> "none", key |-> "", at |-> 0,
                                          result |-> NotFound]]

WcIdleValue == [st |-> "idle", key |-> "", ttl |-> 0, invoked |-> 0, result |-> NotFound]
WcIdle == wc = [c \in {"a"} |-> WcIdleValue]

RetryIdle ==
    retry = [cfg |-> [retryAttempts |-> 0, retryDelay |-> 0], st |-> "idle",
             attempt |-> 0, history |-> << >>, waits |-> << >>, error |-> ""]

KeygenIdle == keygen = [prefix |-> "", params |-> << >>, key |-> << >>]
\* The analysis page as mounted: three pending steps, currentStep 0; captured is the
\* currentStep that the runAnalysis of the last click closed over, failing the steps
\* that were "processing" when its catch block ran.
StepsIdle ==
    steps = [pc |-> "idle", status |-> << "pending", "pending", "pending" >>,
             currentStep |-> 0, isAnalyzing |-> FALSE, analysisComplete |-> FALSE,
             captured |-> 0, failing |-> {}, error |-> "", clicks |-> 0]
ShownIdle == shown = [score |-> 0, band |-> ""]
SideIdle == KeygenIdle /\ StepsIdle /\ ShownIdle

Plan(n, c, p) == [name |-> n, coverage |-> c, premium |-> p]

NoPlan == Plan("", 0, 0)

PlanIdle == plan = [st |-> "idle", riskScore |-> 0, monthlySavings |-> 0,
                    insurancePlan |-> NoPlan]

Init ==
    /\ apiKeys \in Deployments
    /\ profile \in Profiles
    /\ cache = EmptyCache
    /\ now = 0
    /\ cleanupInterval = TimerHandle
    /\ RunIdle
    /\ IdxIdle /\ ProbeIdle /\ WcIdle /\ RetryIdle /\ PlanIdle /\ SideIdle

Next ==
    \/ \E d \in DownSets : StartRun(Scenario(d, apiKeys, EnvApiDown), FALSE)
    \/ \E api \in {EnvApiDown, EnvApiUp(reportedAqi(profile.city), 42, 50)} :
          StartRun(Scenario(Sources, apiKeys, api), TRUE)
    \/ \E f \in Fetchers : Settle(f)
    \/ Collect
    \/ Respond
    \/ Tick
    \/ Sweep

Spec == Init /\ [][Next]_vars

\* The age of a profile whose age is not a number: the route passes userProfile.age
\* on as it came, and every comparison `age > k` of the scoring and of the death-rate
\* adjustment is false for it, as for this value below all their thresholds.
NotANumber == -1

\* Profiles the form does not produce: a non-numeric age, a city and an occupation
\* outside the supported sets.
InvalidProfiles ==
    { [age |-> NotANumber, occupation |-> "Factory Worker", city |-> "Delhi",
       healthCondition |-> "Diabetes", addictions |-> "None", pastSurgery |-> "None",
       workShift |-> "Night"],
      [age |-> 65, occupation |-> "Factory Worker", city |-> "Atlantis",
       healthCondition |-> "Diabetes", addictions |-> "None", pastSurgery |-> "None",
       workShift |-> "Night"],
      [age |-> 22, occupation |-> "Alchemist", city |-> "Bangalore",
       healthCondition |-> "None", addictions |-> "None", pastSurgery |-> "None",
       workShift |-> "Day"] }

\* The requests of such profiles: the route checks only that a profile came.
InvalidInit ==
    /\ apiKeys \in Deployments
    /\ profile \in InvalidProfiles
    /\ cache = EmptyCache
    /\ now = 0
    /\ cleanupInterval = TimerHandle
    /\ RunIdle
    /\ IdxIdle /\ ProbeIdle /\ WcIdle /\ RetryIdle /\ PlanIdle /\ SideIdle

SpecInvalid == InvalidInit /\ [][Next]_vars

\* An answered request is kept, to compare a later one with it.
Remember ==
    /\ pc = "responded"
    /\ ref.saved = NoVal
    /\ ref' = [ref EXCEPT !.saved = [run |-> runs, upstream |-> upstream, fault |-> fault,
                                      view |-> ref.view, response |-> response]]
    /\ UNCHANGED <<apiKeys, cacheVars, pc, profile, upstream, fault, fetched, collected,
                   response, runs, benchVars>>

RerunNext ==
    \/ Next
    \/ Remember

SpecRerun == Init /\ [][RerunNext]_vars

(***************************************************************************)
(* The scoring of one request over a wide range of profiles and answers,   *)
(* started where the five fetchers have settled against an empty cache.    *)
(***************************************************************************)

WideProfiles ==
    [age : {22, 35, 45, 55, 65},
     occupation : {"Student", "Factory Worker", "Construction Worker"},
     city : {"Delhi", "Mumbai", "Bangalore"},
     healthCondition : {"None", "Diabetes"},
     addictions : {"", "Smoking"},
     pastSurgery : {"None", "Bypass"},
     workShift : {"Day", "Night", "Night Shift", "Rotating Shift"}]

WideUpstreams ==
    [weather : {WeatherDown} \cup {WeatherUp(t, h) : t \in {300, 385, 412}, h \in {65, 85}},
     aqicn : {AqicnDown} \cup {AqicnUp(a) : a \in {95, 130, 180, 220}},
     owm : {OwmUp("Haze")},
     worldBank : {WorldBankDown, WorldBankUp(66), WorldBankUp(91)},
     news : {NewsUp(2)},
     environmentApi : {EnvApiDown},
     gemini : {GeminiUp(5)}]

\* The fetchers' results of a request that found the cache empty.
settledFromEmpty(p, keys, up) ==
    [f \in Fetchers |->
        IF f = "healthAlerts" /\ "newsApi" \notin keys
          THEN Done(generateFallbackAlerts(p.city))
        ELSE IF producerResolves(f, p, up) THEN Done(producerValue(f, p, keys, up))
        ELSE Done(fallbackOf(f, p))]

\* ... and the entries their withCache calls stored meanwhile.
storedFromEmpty(p, keys, up) ==
    LET fs == {f \in Fetchers : /\ f # "healthAlerts" \/ "newsApi" \in keys
                               /\ producerResolves(f, p, up)}
        fOf(k) == CHOOSE f \in fs : cacheKeyOf(f, p) = k
    IN  [k \in {cacheKeyOf(f, p) : f \in fs} |->
            [data |-> producerValue(fOf(k), p, keys, up), timestamp |-> 0,
             ttl |-> ttlOf(fOf(k))]]

ScoreInit ==
    /\ apiKeys = AllKeys
    /\ profile \in WideProfiles
    /\ \/ /\ fault = FALSE
          /\ upstream \in WideUpstreams
       \/ /\ fault = TRUE
          /\ \E api \in {EnvApiDown, EnvApiUp(220, 42, 50)} :
                upstream = [AllDown EXCEPT !.environmentApi = api]
    /\ fetched = settledFromEmpty(profile, apiKeys, upstream)
    /\ cache = storedFromEmpty(profile, apiKeys, upstream)
    /\ now = 0
    /\ cleanupInterval = TimerHandle
    /\ pc = "fetching"
    /\ collected = NoVal
    /\ response = NoVal
    /\ runs = 0
    /\ ref = RefIdle
    /\ IdxIdle /\ ProbeIdle /\ WcIdle /\ RetryIdle /\ PlanIdle /\ SideIdle

ScoreNext ==
    \/ Collect
    \/ Respond

SpecScore == ScoreInit /\ [][ScoreNext]_vars

(***************************************************************************)
(* calculateCityHealthIndex over a grid of inputs                          *)
(***************************************************************************)

AqiLevels == {0, 50, 51, 100, 101, 150, 151, 200, 201, 350}
CrimeLevels == {0, 1500, 1501, 3000, 3001, 5000, 5001, 10000, 10001, 15861}
TempLevels == {-5, 9, 10, 14, 15, 25, 35, 36, 40, 41, 48}

IndexInit ==
    /\ idx \in [aqi : AqiLevels, crimeRate : CrimeLevels, temperature : TempLevels,
                index : {-1}]
    /\ apiKeys = {}
    /\ profile \in {p \in Profiles : p.age = 65}
    /\ cache = EmptyCache
    /\ now = 0
    /\ cleanupInterval = TimerHandle
    /\ RunIdle
    /\ ProbeIdle /\ WcIdle /\ RetryIdle /\ PlanIdle /\ SideIdle

CalcIndex ==
    /\ idx.index = -1
    /\ idx' = [idx EXCEPT !.index =
                  calculateCityHealthIndex(idx.aqi, idx.crimeRate, idx.temperature)]
    /\ UNCHANGED <<apiKeys, cacheVars, runVars, probe, wc, retry, plan, sideVars>>

IndexNext == CalcIndex

SpecIndex == IndexInit /\ [][IndexNext]_vars

(***************************************************************************)
(* CacheService and withCache on their own: a client that sets, reads,     *)
(* deletes and clears two keys while a withCache call is under way.        *)
(***************************************************************************)

MaxCacheTicks == 4
CacheKeys == {"k1", "k2"}
CacheValues == {"v1", "v2"}
CacheTtls == {1, 2}

\* What the client knows of key k: its last set, unless a delete or clear followed.
noted(k, v, ttl, t) == [n \in {k} |-> [data |-> v, ttl |-> ttl, at |-> t]]
Forget(m, ks) == [k \in (DOMAIN m) \ ks |-> m[k]]
Looked(op, k, res) == [op |-> op, key |-> k, at |-> now, result |-> res]

\* cacheService.get(key)
getResult(c, key, t) == IF cacheHit(c, key, t) THEN Found(c[key].data) ELSE NotFound

CacheInit ==
    /\ apiKeys = {}
    /\ profile \in {p \in Profiles : p.age = 65}
    /\ cache = EmptyCache
    /\ now = 0
    /\ cleanupInterval = TimerHandle
    /\ RunIdle
    /\ IdxIdle /\ ProbeIdle /\ WcIdle /\ RetryIdle /\ PlanIdle /\ SideIdle

CacheSet(k, v, ttl) ==
    /\ cache' = afterSet(cache, k, v, ttl, now)
    /\ probe' = [lastSet |-> noted(k, v, ttl, now) @@ probe.lastSet,
                 last |-> Looked("set", k, NotFound)]
    /\ UNCHANGED <<apiKeys, now, cleanupInterval, runVars, idx, wc, retry, plan, sideVars>>

CacheGet(k) ==
    /\ cache' = afterGet(cache, k, now)
    /\ probe' = [probe EXCEPT !.last = Looked("get", k, getResult(cache, k, now))]
    /\ UNCHANGED <<apiKeys, now, cleanupInterval, runVars, idx, wc, retry, plan, sideVars>>

\* has(key): get(key) !== null
CacheHas(k) ==
    /\ cache' = afterGet(cache, k, now)
    /\ probe' = [probe EXCEPT !.last =
                    Looked("has", k, [found |-> getResult(cache, k, now) # NotFound])]
    /\ UNCHANGED <<apiKeys, now, cleanupInterval, runVars, idx, wc, retry, plan, sideVars>>

CacheDelete(k) ==
    /\ k \in DOMAIN cache
    /\ cache' = afterDelete(cache, k)
    /\ probe' = [lastSet |-> Forget(probe.lastSet, {k}), last |-> Looked("delete", k, NotFound)]
    /\ UNCHANGED <<apiKeys, now, cleanupInterval, runVars, idx, wc, retry, plan, sideVars>>

CacheClear ==
    /\ cache # EmptyCache
    /\ cache' = EmptyCache
    /\ probe' = [lastSet |-> << >>, last |-> Looked("clear", "", NotFound)]
    /\ UNCHANGED <<apiKeys, now, cleanupInterval, runVars, idx, wc, retry, plan, sideVars>>

\* The cleanup timer fires.
CacheCleanup ==
    /\ cleanupInterval # NoTimer
    /\ cache' = afterCleanup(cache, now)
    /\ cache' # cache
    /\ UNCHANGED <<apiKeys, now, cleanupInterval, runVars, benchVars>>

\* Time passes, a second at a time.
CacheTick ==
    /\ now < MaxCacheTicks * 1000
    /\ now' = now + 1000
    /\ UNCHANGED <<apiKeys, cache, cleanupInterval, runVars, benchVars>>

\* withCache(key, ttl, fetchFn) up to its return: the lookup, and on a miss the call
\* of fetchFn.
WithCacheCall(c, k, ttl) ==
    /\ wc[c].st = "idle"
    /\ cache' = afterGet(cache, k, now)
    /\ IF cacheHit(cache, k, now)
         THEN wc' = [wc EXCEPT ![c] = [st |-> "resolved", key |-> k, ttl |-> ttl,
                                       invoked |-> 0, result |-> Found(cache[k].data)]]
         ELSE wc' = [wc EXCEPT ![c] = [st |-> "pending", key |-> k, ttl |-> ttl,
                                       invoked |-> 1, result |-> NotFound]]
    /\ UNCHANGED <<apiKeys, now, cleanupInterval, runVars, idx, probe, retry, plan, sideVars>>

\* fetchFn's promise resolves: the then-callback stores and returns the data.
ProducerResolves(c, v) ==
    /\ wc[c].st = "pending"
    /\ cache' = afterSet(cache, wc[c].key, v, wc[c].ttl, now)
    /\ wc' = [wc EXCEPT ![c].st = "resolved", ![c].result = Found(v)]
    /\ probe' = [lastSet |-> noted(wc[c].key, v, wc[c].ttl, now) @@ probe.lastSet,
                 last |-> Looked("set", wc[c].key, NotFound)]
    /\ UNCHANGED <<apiKeys, now, cleanupInterval, runVars, idx, retry, plan, sideVars>>

\* fetchFn's promise rejects: withCache's promise rejects with it.
ProducerRejects(c) ==
    /\ wc[c].st = "pending"
    /\ wc' = [wc EXCEPT ![c].st = "rejected"]
    /\ UNCHANGED <<apiKeys, cacheVars, runVars, idx, probe, retry, plan, sideVars>>

\* The caller has its answer.
WithCacheDone(c) ==
    /\ wc[c].st \in {"resolved", "rejected"}
    /\ wc' = [wc EXCEPT ![c] = WcIdleValue]
    /\ UNCHANGED <<apiKeys, cacheVars, runVars, idx, probe, retry, plan, sideVars>>

CacheNext ==
    \/ \E k \in CacheKeys, v \in CacheValues, ttl \in CacheTtls : CacheSet(k, v, ttl)
    \/ \E k \in CacheKeys : CacheGet(k)
    \/ \E k \in CacheKeys : CacheHas(k)
    \/ \E k \in CacheKeys : CacheDelete(k)
    \/ CacheClear
    \/ CacheCleanup
    \/ CacheTick
    \/ \E c \in DOMAIN wc, k \in CacheKeys, ttl \in CacheTtls : WithCacheCall(c, k, ttl)
    \/ \E c \in DOMAIN wc, v \in CacheValues : ProducerResolves(c, v)
    \/ \E c \in DOMAIN wc : ProducerRejects(c)
    \/ \E c \in DOMAIN wc : WithCacheDone(c)

SpecCache == CacheInit /\ [][CacheNext]_vars

\* The sweep's timer and destroy(): a client that sets and reads while the timer
\* fires, and that tears the cache down, possibly more than once.
TimerFires ==
    /\ cleanupInterval # NoTimer
    /\ cache' = afterCleanup(cache, now)
    /\ probe' = [probe EXCEPT !.last = Looked("cleanup", "", NotFound)]
    /\ UNCHANGED <<apiKeys, now, cleanupInterval, runVars, idx, wc, retry, plan, sideVars>>

\* destroy(); the lookup's result notes whether there was a handle to clear.
CacheDestroy ==
    /\ cache' = destroyed(cache, cleanupInterval).cache
    /\ cleanupInterval' = destroyed(cache, cleanupInterval).cleanupInterval
    /\ probe' = [lastSet |-> << >>,
                 last |-> Looked("destroy", "", [found |-> cleanupInterval # NoTimer])]
    /\ UNCHANGED <<apiKeys, now, runVars, idx, wc, retry, plan, sideVars>>

DestroyNext ==
    \/ \E k \in CacheKeys, v \in CacheValues, ttl \in CacheTtls : CacheSet(k, v, ttl)
    \/ \E k \in CacheKeys : CacheGet(k)
    \/ CacheTick
    \/ TimerFires
    \/ CacheDestroy

SpecDestroy == CacheInit /\ [][DestroyNext]_vars

\* The cache in service: sets and reads while time passes and the timer, which
\* setInterval keeps firing, sweeps.
SweepNext ==
    \/ \E k \in CacheKeys, v \in CacheValues, ttl \in CacheTtls : CacheSet(k, v, ttl)
    \/ \E k \in CacheKeys : CacheGet(k)
    \/ CacheTick
    \/ TimerFires

SpecSweep == CacheInit /\ [][SweepNext]_vars /\ WF_vars(TimerFires)

\* Two callers of withCache at once, on a cache nobody else writes.
FlightInit ==
    /\ wc = [c \in {"a", "b"} |-> WcIdleValue]
    /\ apiKeys = {}
    /\ profile \in {p \in Profiles : p.age = 65}
    /\ cache = EmptyCache
    /\ now = 0
    /\ cleanupInterval = TimerHandle
    /\ RunIdle
    /\ IdxIdle /\ ProbeIdle /\ RetryIdle /\ PlanIdle /\ SideIdle

FlightNext ==
    \/ \E c \in DOMAIN wc, k \in CacheKeys, ttl \in CacheTtls : WithCacheCall(c, k, ttl)
    \/ \E c \in DOMAIN wc, v \in CacheValues : ProducerResolves(c, v)
    \/ \E c \in DOMAIN wc : ProducerRejects(c)
    \/ \E c \in DOMAIN wc : WithCacheDone(c)
    \/ CacheTick
    \/ CacheCleanup

SpecFlight == FlightInit /\ [][FlightNext]_vars

(***************************************************************************)
(* fetchWithRetry                                                          *)
(***************************************************************************)

\* retryAttempts and retryDelay of API_CONFIGS: 3 everywhere but newsApi's 2.
RetryConfigs ==
    { [retryAttempts |-> 3, retryDelay |-> 1000], [retryAttempts |-> 2, retryDelay |-> 1000] }

\* How one attempt can end: a 2xx answer with a JSON body, a 2xx answer whose body
\* does not parse, an HTTP error status, a network error, the timeout's abort.
Outcomes == {"ok", "badJson", "http404", "http429", "http500", "network", "timeout"}

\* The statusCode of the error the attempt's catch block sees; 0: not an APIError,
\* or one without a status.
statusCode(o) ==
    CASE o = "http404" -> 404
      [] o = "http429" -> 429
      [] o = "http500" -> 500
      [] o = "timeout" -> 408
      [] OTHER -> 0

\* A catch block that rethrows every 4xx, 429 included.
rethrownEvery4xx(o) == statusCode(o) >= 400 /\ statusCode(o) < 500

\* The catch block rethrows at once: a 4xx other than 429.
rethrown(o) ==
    statusCode(o) # 0 /\ statusCode(o) >= 400 /\ statusCode(o) < 500 /\ statusCode(o) # 429

backoffLinear(retryDelay, attempt) == retryDelay * (attempt + 1)

\* config.retryDelay * Math.pow(2, attempt)
backoff(retryDelay, attempt) == retryDelay * 2 ^ attempt

RetryInit ==
    /\ \E cfg \in RetryConfigs :
          retry = [cfg |-> cfg, st |-> "attempting", attempt |-> 0, history |-> << >>,
                   waits |-> << >>, error |-> ""]
    /\ apiKeys = {}
    /\ profile \in {p \in Profiles : p.age = 65}
    /\ cache = EmptyCache
    /\ now = 0
    /\ cleanupInterval = TimerHandle
    /\ RunIdle
    /\ IdxIdle /\ ProbeIdle /\ WcIdle /\ PlanIdle /\ SideIdle

\* One pass of the loop body, from fetchWithTimeout to the return, the throw or the
\* start of the sleep; the pass after the last one leaves the loop and throws.
Attempt(o) ==
    /\ retry.st = "attempting"
    /\ retry' =
         LET r == [retry EXCEPT !.history = Append(@, o)]
         IN  IF o = "ok" THEN [r EXCEPT !.st = "returned"]
             ELSE IF rethrown(o) THEN [r EXCEPT !.st = "threw", !.error = o]
             ELSE IF retry.attempt < retry.cfg.retryAttempts
               THEN [r EXCEPT !.st = "sleeping",
                              !.waits = Append(@, backoff(retry.cfg.retryDelay, retry.attempt))]
             ELSE [r EXCEPT !.st = "threw", !.error = "Failed after attempts"]
    /\ UNCHANGED <<apiKeys, cacheVars, runVars, idx, probe, wc, plan, sideVars>>

\* The sleep's timer fires: attempt++.
Wake ==
    /\ retry.st = "sleeping"
    /\ retry' = [retry EXCEPT !.st = "attempting", !.attempt = @ + 1]
    /\ UNCHANGED <<apiKeys, cacheVars, runVars, idx, probe, wc, plan, sideVars>>

RetryNext ==
    \/ \E o \in Outcomes : Attempt(o)
    \/ Wake

\* Every attempt ends (the abort timer, and the runtime's own limits on a body that
\* stalls), and every sleep's timer fires.
SpecRetry == RetryInit /\ [][RetryNext]_vars /\ WF_vars(RetryNext)

(***************************************************************************)
(* The analysis page's planner step: calculateMonthlySavings and           *)
(* getInsurancePlan applied to a risk score.                               *)
(***************************************************************************)

\* A selector whose band edges belong to the higher plan.
getInsurancePlanInclusive(riskScore) ==
    IF riskScore >= 70 THEN Plan("Premium Health Shield", 1000000, 8500)
    ELSE IF riskScore >= 50 THEN Plan("Comprehensive Care Plus", 500000, 5500)
    ELSE Plan("Essential Health Cover", 300000, 3500)

getInsurancePlan(riskScore) ==
    IF riskScore > 70 THEN Plan("Premium Health Shield", 1000000, 8500)
    ELSE IF riskScore > 50 THEN Plan("Comprehensive Care Plus", 500000, 5500)
    ELSE Plan("Essential Health Cover", 300000, 3500)

\* A savings target scaled against a score of 100 instead of 50.
calculateMonthlySavingsPerHundred(p, riskScore) ==
    LET baseAmount == 2000
    IN  (2 * baseAmount * riskScore + 100) \div (2 * 100)

\* Math.round(baseAmount * (riskScore / 50)): the quotient is kept as the fraction
\* baseAmount * riskScore / 50 and rounded half up, as Math.floor(x + 0.5) does.
calculateMonthlySavings(p, riskScore) ==
    LET baseAmount == 2000
    IN  (2 * baseAmount * riskScore + 50) \div (2 * 50)

\* The page's own calculateRiskScore(profile), which feeds its planner step.
pageRiskScore(p) ==
    LET agePts == IF p.age > 50 THEN 15 ELSE IF p.age > 35 THEN 10 ELSE 0
        health == IF p.healthCondition # "None" THEN 20 ELSE 0
        occ    == IF p.occupation \in {"Factory Worker", "Healthcare Worker"} THEN 10 ELSE 0
        addict == IF p.addictions # "None" /\ p.addictions # "" THEN 15 ELSE 0
    IN  Min(30 + 15 + agePts + health + occ + addict, 85)

MaxScore == 100
PlanInit ==
    /\ plan \in [st : {"scored"}, riskScore : 0..MaxScore, monthlySavings : {0},
                 insurancePlan : {NoPlan}]
    /\ apiKeys = {}
    /\ profile \in Profiles
    /\ cache = EmptyCache
    /\ now = 0
    /\ cleanupInterval = TimerHandle
    /\ RunIdle
    /\ IdxIdle /\ ProbeIdle /\ WcIdle /\ RetryIdle /\ SideIdle

\* Step 3 of startAnalysis: the savings target and the plan for the score in hand.
PlannerStep ==
    /\ plan.st = "scored"
    /\ plan' = [plan EXCEPT !.st = "planned",
                            !.monthlySavings = calculateMonthlySavings(profile, plan.riskScore),
                            !.insurancePlan = getInsurancePlan(plan.riskScore)]
    /\ UNCHANGED <<apiKeys, cacheVars, runVars, idx, probe, wc, retry, sideVars>>

PlanNext == PlannerStep

SpecPlan == PlanInit /\ [][PlanNext]_vars

(***************************************************************************)
(* generateCacheKey on its own: calls with the parameters in any order.    *)
(***************************************************************************)

ParamValues ==
    [n \in {"age", "city", "occupation"} |->
        CASE n = "age" -> {22, 65}
          [] n = "city" -> {"Delhi", "Bangalore"}
          [] n = "occupation" -> {"Student", "Factory Worker"}]

\* The object literals a caller can write: one value per name, the names in any order.
ParamLists ==
    UNION { { ps \in [1..n -> UNION {{<<nm, v>> : v \in ParamValues[nm]} :
                                        nm \in DOMAIN ParamValues}] :
                \A i, j \in 1..n : i # j => ps[i][1] # ps[j][1] } : n \in 1..3 }

KeygenInit ==
    /\ keygen \in [prefix : {"climate", "deathRate"}, params : ParamLists, key : {<< >>}]
    /\ apiKeys = {}
    /\ profile \in {p \in Profiles : p.age = 65}
    /\ cache = EmptyCache
    /\ now = 0
    /\ cleanupInterval = TimerHandle
    /\ RunIdle
    /\ IdxIdle /\ ProbeIdle /\ WcIdle /\ RetryIdle /\ PlanIdle /\ StepsIdle /\ ShownIdle

GenerateKey ==
    /\ keygen.key = << >>
    /\ keygen' = [keygen EXCEPT !.key = generateCacheKey(keygen.prefix, keygen.params)]
    /\ UNCHANGED <<apiKeys, cacheVars, runVars, idx, probe, wc, retry, plan, steps, shown>>

KeygenNext == GenerateKey

SpecKeygen == KeygenInit /\ [][KeygenNext]_vars

(***************************************************************************)
(* The analysis page: runAnalysis and its three agent steps.               *)
(***************************************************************************)

MaxClicks == 3

StepsInit ==
    /\ StepsIdle
    /\ apiKeys = {}
    /\ profile \in Profiles
    /\ cache = EmptyCache
    /\ now = 0
    /\ cleanupInterval = TimerHandle
    /\ RunIdle
    /\ IdxIdle /\ ProbeIdle /\ WcIdle /\ RetryIdle /\ PlanIdle /\ KeygenIdle /\ ShownIdle

StepsFrame ==
    UNCHANGED <<apiKeys, cacheVars, runVars, idx, probe, wc, retry, plan, keygen, shown>>

\* setAgentSteps(prev => prev.map((step, idx) => idx === i ? {...step, status} : step));
\* i counts from 0, and an i beyond the steps changes nothing.
withStatus(status, i, st) ==
    [k \in DOMAIN status |-> IF k = i + 1 THEN st ELSE status[k]]

\* runAnalysis' catch block: the step at the currentStep this call closed over
\* becomes "error" with the error's message, and the run ends.
caught(st, message) ==
    [st EXCEPT !.pc = "failed", !.isAnalyzing = FALSE, !.error = message,
               !.failing = {i \in DOMAIN st.status : st.status[i] = "processing"},
               !.status = withStatus(st.status, st.captured, "error")]

\* The Start button (shown while neither analyzing nor complete): runAnalysis up to
\* its first await.
ClickStart ==
    /\ ~steps.isAnalyzing /\ ~steps.analysisComplete
    /\ steps.clicks < MaxClicks
    /\ steps' = [steps EXCEPT !.pc = "agent1", !.isAnalyzing = TRUE,
                              !.captured = steps.currentStep, !.currentStep = 0,
                              !.failing = {}, !.clicks = @ + 1,
                              !.status = withStatus(steps.status, 0, "processing")]
    /\ StepsFrame

\* Agent 1 answered ok: step 1 complete, step 2 processing, up to the simulated delay.
Agent1Answers ==
    /\ steps.pc = "agent1"
    /\ steps' = [steps EXCEPT !.pc = "analyzing", !.currentStep = 1,
                              !.status = withStatus(withStatus(steps.status, 0, "complete"),
                                                    1, "processing")]
    /\ StepsFrame

\* The delay is over: step 2 complete, step 3 processing, up to agent 2's request.
DelayOver ==
    /\ steps.pc = "analyzing"
    /\ steps' = [steps EXCEPT !.pc = "agent2", !.currentStep = 2,
                              !.status = withStatus(withStatus(steps.status, 1, "complete"),
                                                    2, "processing")]
    /\ StepsFrame

\* Agent 2 answered ok: step 3 complete, the analysis is complete.
Agent2Answers ==
    /\ steps.pc = "agent2"
    /\ steps' = [steps EXCEPT !.pc = "complete", !.currentStep = 3,
                              !.analysisComplete = TRUE, !.isAnalyzing = FALSE,
                              !.status = withStatus(steps.status, 2, "complete")]
    /\ StepsFrame

\* The request of agent 1 or of agent 2 fails: the fetch rejects, or the answer is
\* not ok and runAnalysis throws.
AgentFails(rejects) ==
    /\ steps.pc \in {"agent1", "agent2"}
    /\ steps' = caught(steps, IF rejects THEN "Failed to fetch"
                              ELSE IF steps.pc = "agent1" THEN "Agent 1 failed"
                              ELSE "Agent 2 failed")
    /\ StepsFrame

\* The Run Again button of the completed analysis: every step pending again.
RunAgain ==
    /\ steps.analysisComplete
    /\ steps' = [steps EXCEPT !.pc = "idle", !.isAnalyzing = FALSE,
                              !.analysisComplete = FALSE, !.currentStep = 0,
                              !.status = [k \in DOMAIN steps.status |-> "pending"]]
    /\ StepsFrame

StepsNext ==
    \/ ClickStart
    \/ RunAgain
    \/ Agent1Answers
    \/ DelayOver
    \/ Agent2Answers
    \/ \E rejects \in BOOLEAN : AgentFails(rejects)

SpecSteps == StepsInit /\ [][StepsNext]_vars

(***************************************************************************)
(* The results page: the band it shows for the stored risk score           *)
(***************************************************************************)

\* getRiskLevel of the results page: the label and colour shown for a score.
pageRiskLevel(score) ==
    IF score < 40 THEN [label |-> "Low Risk", color |-> "text-green-600"]
    ELSE IF score < 60 THEN [label |-> "Moderate Risk", color |-> "text-yellow-600"]
    ELSE IF score < 75 THEN [label |-> "High Risk", color |-> "text-orange-600"]
    ELSE [label |-> "Very High Risk", color |-> "text-red-600"]

ShownInit ==
    /\ apiKeys = {}
    /\ profile \in Profiles
    /\ cache = EmptyCache
    /\ now = 0
    /\ cleanupInterval = TimerHandle
    /\ RunIdle
    /\ IdxIdle /\ ProbeIdle /\ WcIdle /\ RetryIdle /\ PlanIdle /\ KeygenIdle /\ StepsIdle
    /\ ShownIdle

\* The page renders the results of an analysis whose score is riskScore.
ShowResults(riskScore) ==
    /\ shown' = [score |-> riskScore, band |-> pageRiskLevel(riskScore).label]
    /\ UNCHANGED <<apiKeys, cacheVars, runVars, idx, probe, wc, retry, plan, keygen, steps>>

ShownNext == \E riskScore \in 0..MaxScore : ShowResults(riskScore)

SpecShown == ShownInit /\ [][ShownNext]_vars

(***************************************************************************)
(* Properties                                                              *)
(***************************************************************************)

Answered == pc = "responded" /\ response.status = 200

\* C1: the risk score of every answer is an integer in 0..100, and the risk level is
\* the band of that score: critical from 80, high from 60 to 79, medium from 40 to
\* 59, low below 40.
C1_ScoreInRangeAndLevelByThreshold ==
    Answered =>
        LET sc == response.data.riskScore
            lv == response.data.riskLevel
        IN  /\ sc \in 0..100
            /\ lv = "critical" <=> sc >= 80
            /\ lv = "high" <=> (sc >= 60 /\ sc <= 79)
            /\ lv = "medium" <=> (sc >= 40 /\ sc <= 59)
            /\ lv = "low" <=> sc < 40

\* A request whose points add up to more than 100 is answered with the score 100.
C1_Witness ==
    /\ Answered
    /\ response.data.riskScore = 100
    /\ response.data.riskLevel = "critical"
    /\ scoreSum(riskCalculationInput(profile, collected.data)) > 100 * Q

CategoryRank(c) == CHOOSE i \in DOMAIN Categories : Categories[i] = c

\* C2: the factor list of every answer is the stable descending sort by impact of
\* the derived factors: adjacent impacts never increase, factors of equal impact
\* stand in derivation order (Air Quality, Seasonal, Occupational, Age, Pre-existing
\* Condition, Lifestyle, Work Schedule, Environmental Stress, City Safety, City
\* Health), and the list holds exactly the derived factors.
C2_FactorsStablySortedByImpact ==
    Answered =>
        LET out == response.data.riskFactors
            der == derivedFactors(riskCalculationInput(profile, collected.data))
        IN  /\ \A i \in 1..(Len(out) - 1) : out[i].impact >= out[i + 1].impact
            /\ \A i, j \in DOMAIN out :
                  (i < j /\ out[i].impact = out[j].impact)
                      => CategoryRank(out[i].category) < CategoryRank(out[j].category)
            /\ \A i, j \in DOMAIN der :
                  i < j => CategoryRank(der[i].category) < CategoryRank(der[j].category)
            /\ Len(out) = Len(der)
            /\ {out[i] : i \in DOMAIN out} = {der[i] : i \in DOMAIN der}

\* An answer whose list was reordered by the sort and holds a tie.
C2_Witness ==
    /\ Answered
    /\ LET out == response.data.riskFactors
           der == derivedFactors(riskCalculationInput(profile, collected.data))
       IN  /\ out # der
           /\ Len(out) >= 6
           /\ \E i \in 1..(Len(out) - 1) : out[i].impact = out[i + 1].impact

\* How far a temperature lies outside the comfortable band 15..35.
Extremity(t) == Max(0, Max(t - 35, 15 - t))

\* C7: the city health index lies in 0..100 and does not increase when the AQI rises,
\* when the crime rate rises, or when the temperature moves further out of the
\* comfortable band, the other two inputs held fixed.
C7_IndexBoundedAndMonotone ==
    idx.index # -1 =>
        /\ idx.index \in 0..100
        /\ \A a \in AqiLevels :
              a >= idx.aqi =>
                 calculateCityHealthIndex(a, idx.crimeRate, idx.temperature) <= idx.index
        /\ \A c \in CrimeLevels :
              c >= idx.crimeRate =>
                 calculateCityHealthIndex(idx.aqi, c, idx.temperature) <= idx.index
        /\ \A t \in TempLevels :
              Extremity(t) >= Extremity(idx.temperature) =>
                 calculateCityHealthIndex(idx.aqi, idx.crimeRate, t) <= idx.index

\* The worst inputs bring the index to its floor, the best leave it at 100.
C7_Witness ==
    /\ idx.index = 0
    /\ idx.aqi > 200 /\ idx.crimeRate > 10000 /\ idx.temperature > 40

ValidPair(p) == p.city \in StaticCities /\ p.occupation \in StaticOccupations

\* C3: when every external source fails and nothing usable is cached, the request
\* is still answered, with dataQuality.overall "poor" and a score.
C3_AllSourcesDownIsPoor ==
    (pc = "responded" /\ upstream = AllDown /\ ~fault /\ ref.view = << >>) =>
        /\ response.status = 200
        /\ response.data.riskScore \in 0..100
        /\ "dataQuality" \in DOMAIN response.data
        /\ response.data.dataQuality.overall = "poor"

\* C4: collectAllData resolves with a record for every valid city/occupation pair,
\* whatever the sources answer and also when the enhanced collection throws.
C4_CollectAllDataTotal ==
    (pc \in {"collected", "responded"} /\ ValidPair(profile)) =>
        /\ collected.ok
        /\ {"environmental", "statistical", "occupationHazard", "cityStats"}
              \subseteq DOMAIN collected.data

\* The enhanced collection threw and /api/environment failed as well: the record
\* comes from collectBasicData with the environmental fallback.
C4_Witness ==
    /\ pc = "collected"
    /\ fault
    /\ ~upstream.environmentApi.ok
    /\ collected.ok
    /\ collected.data.environmental.source.weather = "Fallback"

\* C5: every answer carries a dataQuality field, whichever collection produced it.
C5_AnswerCarriesDataQuality ==
    Answered => "dataQuality" \in DOMAIN response.data

SameInputsAsKept ==
    /\ pc = "responded"
    /\ ref.saved # NoVal
    /\ ref.saved.run < runs
    /\ ref.saved.upstream = upstream
    /\ ref.saved.fault = fault

\* C6 as stated: two requests with the same profile and the same source answers give
\* the same answer, whatever earlier requests left in the cache.
C6_SameInputsSameAnswer ==
    SameInputsAsKept => response = ref.saved.response

\* C6: two requests with the same profile and the same source answers that start
\* with the same unexpired cache content give the same answer.
C6_SameInputsSameCacheSameAnswer ==
    (SameInputsAsKept /\ ref.saved.view = ref.view) => response = ref.saved.response

\* Two requests alike that both found cached data, the later one after time passed.
C6_Witness ==
    /\ SameInputsAsKept
    /\ ref.saved.view = ref.view
    /\ ref.view # << >>
    /\ now > 0
    /\ response = ref.saved.response

\* C8: a get or has of a key whose last set was not followed by a delete or clear
\* finds the value set while the set is at most ttl seconds old, and finds nothing
\* (get: null, has: false) once it is older.
C8_CacheRoundTrip ==
    LET l == probe.last IN
    (l.op \in {"get", "has"} /\ l.key \in DOMAIN probe.lastSet) =>
        LET s == probe.lastSet[l.key]
            fresh == l.at - s.at <= s.ttl * 1000
        IN  /\ (l.op = "get" /\ fresh) => l.result = Found(s.data)
            /\ (l.op = "get" /\ ~fresh) => l.result = NotFound
            /\ l.op = "has" => l.result = [found |-> fresh]

\* A get of a set key, after more than its ttl: nothing found, and the entry is gone.
C8_Witness ==
    LET l == probe.last IN
    /\ l.op = "get"
    /\ l.key \in DOMAIN probe.lastSet
    /\ l.at - probe.lastSet[l.key].at > probe.lastSet[l.key].ttl * 1000
    /\ l.result = NotFound
    /\ l.key \notin DOMAIN cache

Unexpired(c, k, t) == k \in DOMAIN c /\ t - c[k].timestamp <= c[k].ttl * 1000
SameElsewhere(c, d, k) ==
    /\ (DOMAIN c) \ {k} = (DOMAIN d) \ {k}
    /\ \A x \in (DOMAIN c) \ {k} : c[x] = d[x]

\* C9: a withCache call that finds an unexpired entry returns its value without
\* calling the producer and leaves the cache alone; any other call calls the
\* producer once; when the producer resolves, its value is stored under the key
\* with the call's ttl and returned; when it rejects, the call rejects and the
\* cache is left alone.
C9_WithCache ==
    [][ \A c \in DOMAIN wc :
        /\ (wc[c].st = "idle" /\ wc'[c].st # "idle") =>
             IF Unexpired(cache, wc'[c].key, now)
               THEN /\ wc'[c].st = "resolved"
                    /\ wc'[c].result = Found(cache[wc'[c].key].data)
                    /\ wc'[c].invoked = 0
                    /\ cache' = cache
               ELSE /\ wc'[c].st = "pending"
                    /\ wc'[c].invoked = 1
                    /\ SameElsewhere(cache, cache', wc'[c].key)
                    /\ wc'[c].key \in DOMAIN cache' => cache'[wc'[c].key] = cache[wc'[c].key]
        /\ (wc[c].st = "pending" /\ wc'[c].st = "resolved") =>
             /\ wc'[c].invoked = 1
             /\ wc'[c].result.found
             /\ wc[c].key \in DOMAIN cache'
             /\ cache'[wc[c].key] =
                   [data |-> wc'[c].result.data, timestamp |-> now, ttl |-> wc[c].ttl]
             /\ SameElsewhere(cache, cache', wc[c].key)
        /\ (wc[c].st = "pending" /\ wc'[c].st = "rejected") =>
             /\ wc'[c].invoked = 1
             /\ cache' = cache
      ]_vars

\* A call that found the key's entry expired has called the producer, and the
\* producer has resolved: the value is stored afresh.
C9_Witness ==
    \E c \in DOMAIN wc :
        /\ wc[c].st = "resolved"
        /\ wc[c].invoked = 1
        /\ now > 0
        /\ wc[c].key \in DOMAIN cache
        /\ cache[wc[c].key].timestamp = now
        /\ cache[wc[c].key].data = wc[c].result.data
        /\ wc[c].key \in DOMAIN probe.lastSet

RetryableFailures == {"badJson", "http429", "http500", "network"}
Ended == retry.st \in {"returned", "threw"}
ExpectedWaits(cfg, n) == [i \in 1..n |-> cfg.retryDelay * 2 ^ (i - 1)]

\* C10: fetchWithRetry ends; it makes at most retryAttempts + 1 attempts, one after
\* the other; before attempt number i + 1 it has waited retryDelay * 2^(i - 1); and
\* when every attempt failed with a retryable failure it has made exactly
\* retryAttempts + 1 attempts, waited retryAttempts times and failed with an error.
C10_RetryBoundedAndEnds ==
    /\ [](/\ Len(retry.history) <= retry.cfg.retryAttempts + 1
          /\ retry.st = "attempting" =>
                /\ Len(retry.history) = retry.attempt
                /\ retry.waits = ExpectedWaits(retry.cfg, retry.attempt)
          /\ (Ended /\ \A i \in DOMAIN retry.history : retry.history[i] \in RetryableFailures) =>
                /\ Len(retry.history) = retry.cfg.retryAttempts + 1
                /\ retry.waits = ExpectedWaits(retry.cfg, retry.cfg.retryAttempts)
                /\ retry.st = "threw")
    /\ <>Ended

\* Four attempts failed, with waits of 1, 2 and 4 seconds between them.
C10_Witness ==
    /\ retry.st = "threw"
    /\ retry.cfg.retryAttempts = 3
    /\ Len(retry.history) = 4
    /\ \A i \in DOMAIN retry.history : retry.history[i] \in RetryableFailures
    /\ retry.waits = <<1000, 2000, 4000>>

ClientErrors == {"http404"}
RetriedStatuses == {"http429", "http500"}
LastOutcome == retry.history[Len(retry.history)]

\* C11: an attempt answered with a 4xx other than 429 is the call's last attempt and
\* the call fails there; an attempt answered with 429 or 5xx ends the call only when
\* no attempt remains, and is otherwise followed by a wait and another attempt.
C11_ClientErrorsEndRetriedStatusesContinue ==
    /\ [](/\ \A i \in DOMAIN retry.history :
                retry.history[i] \in ClientErrors =>
                    /\ i = Len(retry.history)
                    /\ retry.st = "threw"
                    /\ retry.error = retry.history[i]
          /\ (retry.history # << >> /\ LastOutcome \in RetriedStatuses) =>
                IF Len(retry.history) <= retry.cfg.retryAttempts
                  THEN retry.st \in {"sleeping", "attempting"}
                  ELSE retry.st = "threw")
    /\ [][(retry.st = "sleeping" /\ retry'.st # "sleeping") =>
             (retry'.st = "attempting" /\ retry'.history = retry.history)]_vars
    /\ ((retry.st = "sleeping") ~> (retry.st = "attempting"))

\* A 429 and a 500 were each followed by another attempt, and a 404 on the third
\* attempt ended the call with an attempt to spare.
C11_Witness ==
    /\ retry.st = "threw"
    /\ retry.history = <<"http429", "http500", "http404">>
    /\ retry.cfg.retryAttempts = 3
    /\ retry.waits = <<1000, 2000>>

\* The provenance labels of a fetcher's value.
labelsOf(f, v) ==
    CASE f = "climate" -> {v.sources.weather, v.sources.aqi}
      [] f = "healthAlerts" -> {v[i].source : i \in DOMAIN v}
      [] OTHER -> {v.source}

LiveLabels(f) ==
    CASE f = "climate" -> {"Open-Meteo (Real-time)", "AQICN (Real-time)", "Estimated"}
      [] f = "deathRate" -> {"World Bank API"}
      [] f = "occupationDeathRate" -> {"ILO/OSHA Statistics"}
      [] f = "crime" -> {"NCRB (National Crime Records Bureau)"}
      [] f = "healthAlerts" -> {"NewsAPI"}

\* The fetcher found nothing cached when the request started.
Missed(f) == cacheKeyOf(f, profile) \notin DOMAIN ref.view

\* The fetcher had nothing live to return: its request failed for good, its API key
\* is missing, or (health alerts) the answer held no article.
FellBack(f) ==
    \/ f = "healthAlerts" /\ "newsApi" \notin apiKeys
    \/ /\ Missed(f)
       /\ \/ ~producerResolves(f, profile, upstream)
          \/ f = "healthAlerts" /\ upstream.news.articles = 0

LiveFetchers == {f \in Fetchers : fetched[f].val # fallbackOf(f, profile)}

\* The band of a fraction n/d: excellent from 75%, good from 50%, fair from 25%.
Band(n, d) ==
    IF 100 * n >= 75 * d THEN "excellent"
    ELSE IF 100 * n >= 50 * d THEN "good"
    ELSE IF 100 * n >= 25 * d THEN "fair"
    ELSE "poor"

\* C13: the aggregated dataQuality.overall is the band of the fraction of the five
\* fetchers that returned live data, and realTimeDataPercentage lies in 0..100.
C13_QualityIsLiveFraction ==
    (pc = "collected" /\ "dataQuality" \in DOMAIN collected.data) =>
        /\ collected.data.dataQuality.overall = Band(Cardinality(LiveFetchers), 5)
        /\ collected.data.dataQuality.realTimeDataPercentage \in 0..100

\* What fetcher f can settle with in this request: the entry cached at the start, or
\* its producer's value, or its fallback.
SettledValue(f) ==
    IF f = "healthAlerts" /\ "newsApi" \notin apiKeys THEN generateFallbackAlerts(profile.city)
    ELSE IF ~Missed(f) THEN ref.view[cacheKeyOf(f, profile)]
    ELSE IF producerResolves(f, profile, upstream)
      THEN producerValue(f, profile, apiKeys, upstream)
    ELSE fallbackOf(f, profile)

\* C14: no collected result exists while a fetcher is unsettled; the result is
\* composed in the step that finds all five settled, each with its live (or cached)
\* value or its fallback, and the enhanced result holds exactly those five values,
\* the city health index computed from the settled climate and crime values, and
\* the data quality computed from them.
C14_ComposedAfterAllSettled ==
    /\ []((\E f \in Fetchers : fetched[f].st # "done") => collected = NoVal)
    /\ [](\A f \in Fetchers : fetched[f].st = "done" => fetched[f].val = SettledValue(f))
    /\ [][(collected = NoVal /\ collected' # NoVal) =>
             /\ \A f \in Fetchers : fetched[f].st = "done"
             /\ fetched' = fetched
             /\ ~fault =>
                  LET rt == collected'.data.realTimeData IN
                  /\ \A f \in Fetchers : rt[f] = fetched[f].val
                  /\ collected'.data.statistical.cityHealthIndex =
                        calculateCityHealthIndex(fetched["climate"].val.aqi,
                            fetched["crime"].val.crimeRate,
                            fetched["climate"].val.temperature)
                  /\ collected'.data.dataQuality = dataQualityOf(vals(fetched))
                  /\ collected'.data.healthAlerts = fetched["healthAlerts"].val
          ]_vars

\* The health-alert fetcher, called last, has settled with live articles while the
\* climate fetcher, called first, is still waiting: no result exists yet.
C14_Witness ==
    /\ pc = "fetching"
    /\ fetched["climate"].st = "pending"
    /\ fetched["deathRate"].st = "pending"
    /\ fetched["healthAlerts"].st = "done"
    /\ Missed("healthAlerts")
    /\ Len(fetched["healthAlerts"].val) = 2
    /\ collected = NoVal

BothMissed(c, d) ==
    /\ c # d
    /\ wc[c].key = wc[d].key
    /\ wc[c].invoked = 1 /\ wc[d].invoked = 1

\* C15: of two withCache calls on one key that both missed, each resolves with the
\* value of its own producer, whatever the other does meanwhile, and the cache
\* holds under the key the value that was stored last.
C15_ConcurrentMissesBothProduce ==
    [][ \A c, d \in DOMAIN wc :
          (BothMissed(c, d) /\ wc[c].st = "pending" /\ wc'[c].st = "resolved") =>
             /\ wc'[c].result.found
             /\ wc'[d] = wc[d]
             /\ wc[c].key \in DOMAIN cache'
             /\ cache'[wc[c].key].data = wc'[c].result.data
             /\ probe'.lastSet[wc[c].key].data = wc'[c].result.data
             /\ wc[d].st = "resolved" =>
                   cache'[wc[c].key].data \in {wc'[c].result.data, wc'[d].result.data}
      ]_vars

\* Both calls missed and both producers ran; they resolved with different values,
\* a first and then b, and the cache holds b's.
C15_Witness ==
    /\ BothMissed("a", "b")
    /\ wc["a"].st = "resolved" /\ wc["b"].st = "resolved"
    /\ wc["a"].result.data # wc["b"].result.data
    /\ wc["a"].key \in DOMAIN cache
    /\ cache[wc["a"].key].data = wc["b"].result.data

\* The unrounded score of the current request's profile as the form saves it with
\* the given Work Shift choice, in points times Q.
FormScore(choice) ==
    LET in == riskCalculationInput(profile, collected.data)
    IN  scoreSum([in EXCEPT !.userProfile.workShift = formWorkShift(choice)])

\* C16: a profile saved by the form with the night shift has 5 points more, and with
\* the rotating shift 3 points more, than with the day shift, before rounding and
\* clamping and with all else equal.
C16_FormShiftPoints ==
    pc = "collected" =>
        /\ FormScore("Night Shift") = FormScore("Day Shift") + 5 * Q
        /\ FormScore("Rotating Shift") = FormScore("Day Shift") + 3 * Q
\* The three plans, each with the band of scores it is for.
PlanBands(score) ==
    { <<score > 70, Plan("Premium Health Shield", 1000000, 8500)>>,
      <<score > 50 /\ score <= 70, Plan("Comprehensive Care Plus", 500000, 5500)>>,
      <<score <= 50, Plan("Essential Health Cover", 300000, 3500)>> }

\* C17: the planner step recommends the plan of the band the score lies in (above
\* 70 Premium Health Shield 1,000,000 / 8,500; above 50 up to 70 Comprehensive Care
\* Plus 500,000 / 5,500; up to 50 Essential Health Cover 300,000 / 3,500), and every
\* score lies in exactly one band.
C17_PlanByScoreBand ==
    plan.st = "planned" =>
        LET matching == {b \in PlanBands(plan.riskScore) : b[1]}
        IN  /\ Cardinality(matching) = 1
            /\ \A b \in matching : plan.insurancePlan = b[2]

\* A score on a band's edge has been planned for, and got the lower plan.
C17_Witness ==
    /\ plan.st = "planned"
    /\ plan.riskScore = 70
    /\ plan.insurancePlan.name = "Comprehensive Care Plus"

\* C18: the savings target is 2000 * riskScore / 50 rounded to the nearest integer
\* (halves up); no lower score has a higher target, and the target of score 100 is
\* twice that of score 50.
C18_SavingsRoundedLinear ==
    plan.st = "planned" =>
        LET s == plan.riskScore
            m == plan.monthlySavings
        IN  /\ 2 * 2000 * s - 50 < 2 * 50 * m
            /\ 2 * 50 * m <= 2 * 2000 * s + 50
            /\ \A t \in 0..s : calculateMonthlySavings(profile, t) <= m
            /\ s = 100 => m = 2 * calculateMonthlySavings(profile, 50)
            /\ s = 50 => m = 2000

\* The highest score has been planned for: a target of 4000.
C18_Witness ==
    /\ plan.st = "planned"
    /\ plan.riskScore = 100
    /\ plan.monthlySavings = 4000

\* The answered request is the one of the given profile, with the given AQI and the
\* given crime rate per 100k (the fraction dropped) in the data that was scored.
ExampleRun(age, aqi, crimeRate) ==
    /\ Answered
    /\ profile.age = age
    /\ collected.data.environmental.aqi = aqi
    /\ collected.data.cityStats.crimeRate \div 10 = crimeRate

\* The score of the collected data without its occupation-hazard and crime-stress
\* points, which come from the static tables.
ScoreWithoutTables ==
    LET in == riskCalculationInput(profile, collected.data)
        occ == (2 * in.occupationHazard.riskScore + 5) \div 10
        crime == Min(calculateCrimeStressImpact(in.cityStats.crimeRate), 10)
    IN  MathRound(scoreSum(in) - Q * (occ + crime))

StructuredFields ==
    {"riskScore", "riskLevel", "riskFactors", "environmentalData", "statisticalData",
     "dataQuality"}

Structured(d) == [n \in StructuredFields \cap DOMAIN d |-> d[n]]

\* The narrative call of the answered request did not produce a text.
NoNarrative == "gemini" \notin apiKeys \/ ~upstream.gemini.ok

\* An earlier request was kept that differs from the answered one at most in what
\* the narrative service did.
SameButNarrative ==
    /\ pc = "responded"
    /\ ref.saved # NoVal
    /\ ref.saved.run < runs
    /\ [ref.saved.upstream EXCEPT !.gemini = upstream.gemini] = upstream
    /\ ref.saved.fault = fault
    /\ ref.saved.view = ref.view

ValidProfile(p) == ValidPair(p) /\ p.age # NotANumber

\* C22: a request whose profile has an unknown city or occupation or a non-numeric
\* age is answered with an error, and no result is computed for it.
C22_InvalidProfileRejected ==
    (pc = "responded" /\ ~ValidProfile(profile)) =>
        /\ response.status # 200
        /\ "data" \notin DOMAIN response

\* C23: right after destroy() the timer handle is cleared and the cache is empty,
\* also when it was called before; a sweep is never the last thing that happened on
\* a cache whose timer is cleared; and a cleared timer is never armed again.
C23_SweepStopsAtDestroy ==
    /\ [](probe.last.op = "destroy" => (cleanupInterval = NoTimer /\ cache = EmptyCache))
    /\ [](probe.last.op = "cleanup" => cleanupInterval # NoTimer)
    /\ [][cleanupInterval = NoTimer => cleanupInterval' = NoTimer]_vars

\* destroy() was called on a cache already destroyed and written to again since.
C23_Witness ==
    /\ probe.last.op = "destroy"
    /\ ~probe.last.result.found
    /\ probe.last.at > 0
    /\ cleanupInterval = NoTimer
    /\ cache = EmptyCache

\* The entry is older than its ttl at time t.
Aged(e, t) == t - e.timestamp > e.ttl * 1000

\* The entry under k is older than its ttl.
Stale(k) == k \in DOMAIN cache /\ Aged(cache[k], now)

\* C24: after a read of a key no entry older than its ttl is left under it; after a
\* sweep no such entry is left at all, and the sweep leaves every other entry as it
\* was; and an entry older than its ttl does not stay for ever.
C24_ExpiredEntriesPurged ==
    /\ []((probe.last.op = "get" /\ probe.last.at = now) => ~Stale(probe.last.key))
    /\ []((probe.last.op = "cleanup" /\ probe.last.at = now) =>
              \A k \in CacheKeys : ~Stale(k))
    /\ [][(probe'.last.op = "cleanup" /\ probe'.last # probe.last) =>
              \A k \in DOMAIN cache :
                  IF Aged(cache[k], now) THEN k \notin DOMAIN cache'
                  ELSE k \in DOMAIN cache' /\ cache'[k] = cache[k]]_vars
    /\ \A k \in CacheKeys : Stale(k) ~> ~Stale(k)

\* A sweep has just removed an expired entry and kept an unexpired one.
C24_Witness ==
    /\ probe.last.op = "cleanup"
    /\ probe.last.at = now
    /\ DOMAIN probe.lastSet = CacheKeys
    /\ Cardinality(DOMAIN cache) = 1
    /\ \E k \in CacheKeys : k \notin DOMAIN cache /\ now - probe.lastSet[k].at > probe.lastSet[k].ttl * 1000

\* The same parameters, written in every order.
Reordered(params) ==
    LET n == Len(params)
    IN  { [i \in 1..n |-> params[f[i]]] :
            f \in {g \in [1..n -> 1..n] : \A i, j \in 1..n : i # j => g[i] # g[j]} }

\* C25: the key generated for a parameter record is the key generated for the same
\* names and values written in any other order.
C25_KeyIgnoresParamOrder ==
    keygen.key # << >> =>
        \A qs \in Reordered(keygen.params) :
            generateCacheKey(keygen.prefix, qs) = keygen.key

\* A key has been generated from three parameters given out of name order.
C25_Witness ==
    /\ keygen.key # << >>
    /\ Len(keygen.params) = 3
    /\ keygen.params[1][1] = "occupation"
    /\ keygen.params[3][1] = "age"
    /\ keygen.key[2][1][1] = "age"

\* The flags the thresholds give for a climate record's own readings.
ThresholdFlags(c) ==
    (IF c.temperature > 40 THEN {"Extreme heat warning"}
     ELSE IF c.temperature > 35 THEN {"Heat stress risk"} ELSE {})
    \cup (IF c.aqi > 150 THEN {"Poor air quality - respiratory risks"} ELSE {})
    \cup (IF c.humidity > 80 THEN {"High humidity - heat exhaustion risk"} ELSE {})

AqiClass(aqi) ==
    CASE aqi > 200 -> "Critical"
      [] aqi > 150 /\ aqi <= 200 -> "High"
      [] aqi > 100 /\ aqi <= 150 -> "Moderate"
      [] aqi <= 100 -> "Low"

\* C26: every climate record a request got, live or fallback, has the climateRisk of
\* its aqi and, as seasonalRisks, exactly the flags the thresholds give for its
\* temperature, aqi and humidity, each once.
C26_ClimateFlagsFromThresholds ==
    fetched["climate"].st = "done" =>
        LET c == fetched["climate"].val
        IN  /\ c.climateRisk = AqiClass(c.aqi)
            /\ {c.seasonalRisks[i] : i \in DOMAIN c.seasonalRisks} = ThresholdFlags(c)
            /\ Len(c.seasonalRisks) = Cardinality(ThresholdFlags(c))

\* C27: an attempt that timed out ends the call only when no attempt remains, and is
\* otherwise followed by the backoff wait and another attempt.
C27_TimeoutIsRetried ==
    (retry.history # << >> /\ LastOutcome = "timeout") =>
        IF Len(retry.history) <= retry.cfg.retryAttempts
          THEN /\ retry.st \in {"sleeping", "attempting"}
               /\ retry.waits = ExpectedWaits(retry.cfg, Len(retry.history))
          ELSE retry.st = "threw"

\* C28: when a run has failed, the steps that were "processing" at the failure are
\* marked "error", and a page that is not analyzing shows no step as "processing".
C28_ErrorMarksProcessingStep ==
    /\ steps.pc = "failed" => \A i \in steps.failing : steps.status[i] = "error"
    /\ ~steps.isAnalyzing => \A i \in DOMAIN steps.status : steps.status[i] # "processing"

\* C29: every entry cached under a climate key was built from a successful weather
\* request and has the 3600 s ttl; the fallback record is never stored, so a request
\* that finds no live climate entry asks upstream again; an entry, estimated AQI
\* included, stays as it is while its age is within the ttl, and a request in that
\* time is answered with the entry's data and asks no source.
ClimateKey == cacheKeyOf("climate", profile)

WithinTtl(e, t) == t - e.timestamp <= 3600 * 1000

ClimateLookup ==
    (pc # "fetching" /\ pc' = "fetching") =>
        IF ClimateKey \in DOMAIN cache /\ WithinTtl(cache[ClimateKey], now)
          THEN fetched'.climate = Done(cache[ClimateKey].data)
          ELSE fetched'.climate = Pending

ClimateEntryKept ==
    (ClimateKey \in DOMAIN cache /\ WithinTtl(cache[ClimateKey], now')) =>
        (ClimateKey \in DOMAIN cache' /\ cache'[ClimateKey] = cache[ClimateKey])

ClimateFallbackNotStored ==
    (/\ fetched.climate = Pending
     /\ fetched'.climate # Pending
     /\ fetched'.climate.val = climateFallback(profile.city)) => cache' = cache

BandOfLevel(level) ==
    CASE level = "low" -> "Low Risk"
      [] level = "medium" -> "Moderate Risk"
      [] level = "high" -> "High Risk"
      [] level = "critical" -> "Very High Risk"

C30_PageBandMatchesEngineLevel ==
    (shown.band # "" /\ shown.score \in 0..100) =>
        shown.band = BandOfLevel(getRiskLevel(shown.score))

=============================================================================
